---- MODULE Spec2Model ----
(***************************************************************************)
(* Fungible-token asset module (x/asset/ft) of the coreum chain: the token *)
(* registry, the frozen and whitelisted ledgers, the issuer messages and   *)
(* the hook the bank calls before every Send and MultiSend.                *)
(*                                                                         *)
(* One step of Spec is one committed or rejected transaction holding one   *)
(* message.  A rejected message leaves the ledgers as they were and only   *)
(* records its error in `last`.  SpecTx delivers transactions of several   *)
(* messages, SpecGenesis imports and exports a genesis state, SpecPolicies *)
(* runs the sends of a token that has the freeze and the whitelist feature,*)
(* SpecNative sends the chain's native coin through the hook.              *)
(*                                                                         *)
(* SpecFaucet is the faucet of the integration tests: concurrent calls of  *)
(* FundAccounts that elect a leader over a lock channel and are funded in  *)
(* one batch.  SpecCLI is one run of the client's issue command.           *)
(***************************************************************************)
EXTENDS Integers, Sequences, FiniteSets, TLC

(***************************************************************************)
(* Bounds of the model.                                                    *)
(***************************************************************************)
\* largest total supply of a denom (Mint is not offered beyond it)
MaxSupply == 4
\* largest amount of one message, largest frozen amount and largest limit
MaxAmount == 2
\* sdk.Dec is a fixed-point number; OneDec units make 1.0 (10^18 in the sdk)
OneDec == 2

Accounts == {"issuer", "r1", "r2"}
Issuers == {"issuer"}
\* the subunits of the MsgIssue messages: a valid one and one in upper case
Subunits == {"abc", "ABC"}
\* the accounts Freeze and Unfreeze are offered for: the issuer and one holder
FreezeTargets == {"issuer", "r1"}

Amounts == 1..MaxAmount

Max(a, b) == IF a >= b THEN a ELSE b

(***************************************************************************)
(* Denom builder: lower-case subunit + "-" + issuer address.               *)
(***************************************************************************)
\* strings.ToLower, on the strings the model issues tokens with
ToLower(s) == CASE s = "ABC" -> "abc" [] OTHER -> s

BuildDenom(subunit, issuer) == ToLower(subunit) \o "-" \o issuer

\* a subunit is made of lower-case letters and digits
ValidateSubunit(subunit) == subunit = ToLower(subunit)

Denoms == {BuildDenom(s, i) : s \in Subunits, i \in Issuers}

(***************************************************************************)
(* Token features and error codes.                                         *)
(***************************************************************************)
TokenFeature_mint == "mint"
TokenFeature_burn == "burn"
TokenFeature_freeze == "freeze"
TokenFeature_whitelist == "whitelist"

NoErr == "OK"
ErrTokenNotFound == "ErrTokenNotFound"
ErrAlreadyExists == "ErrAlreadyExists"
ErrInvalidSubunit == "ErrInvalidSubunit"
ErrUnauthorized == "ErrUnauthorized"
ErrFeatureNotActive == "ErrFeatureNotActive"
ErrNotEnoughBalance == "ErrNotEnoughBalance"
ErrInsufficientFunds == "ErrInsufficientFunds"
ErrGloballyFrozen == "ErrGloballyFrozen"
ErrWhitelistedLimitExceeded == "ErrWhitelistedLimitExceeded"
ErrInvalidAddress == "ErrInvalidAddress"

\* the value of the registry at a denom that was never issued
NoToken == [denom |-> <<>>]

(***************************************************************************)
(* The MsgIssue messages the model issues tokens with: the feature sets    *)
(* and burn rates of the integration tests, with small amounts.            *)
(***************************************************************************)
IssueKinds ==
    { [features |-> {}, burn_rate |-> 1, initial_amount |-> 4],
      [features |-> {TokenFeature_mint, TokenFeature_burn}, burn_rate |-> OneDec,
       initial_amount |-> 2],
      [features |-> {TokenFeature_freeze}, burn_rate |-> 0, initial_amount |-> 3],
      [features |-> {TokenFeature_freeze}, burn_rate |-> OneDec, initial_amount |-> 2],
      [features |-> {TokenFeature_mint, TokenFeature_whitelist}, burn_rate |-> 0,
       initial_amount |-> 3] }

VARIABLES
    tokens,       \* token registry: denom -> FT record, or NoToken
    balances,     \* bank: denom -> account -> balance
    supply,       \* bank: denom -> total supply
    frozen,       \* frozen ledger: denom -> account -> frozen amount
    whitelisted,  \* whitelisted ledger: denom -> account -> limit
    last,         \* the last message delivered and its outcome
    before,       \* the store that message was delivered to
    muCh,         \* faucet: tokens in the lock channel (capacity 1)
    pc,           \* faucet: where each FundAccounts call stands
    ctxDone,      \* faucet: whether the call's context is cancelled
    accountsToFund, \* faucet: the accounts each call asks to fund
    collected,    \* faucet: collectRequests' `requests` of each leader
    requests,     \* faucet: FundAccounts' `requests` of each leader
    FundedCh,     \* faucet: each request's result channel (capacity 1)
    retErr,       \* faucet: what each call returns
    sent,         \* faucet: results the leader's deferred loop has sent
    broadcasts,   \* faucet: the message lists broadcast so far
    cmd           \* client: the run of the issue command, or NoCmd

storeVars == <<tokens, balances, supply, frozen, whitelisted, last, before>>

faucetVars == <<muCh, pc, ctxDone, accountsToFund, collected, requests, FundedCh,
                retErr, sent, broadcasts>>

cliVars == <<cmd>>

vars == <<storeVars, faucetVars, cliVars>>

\* no command of the client has been run
NoCmd == [pc |-> "none"]

\* the test processes that call the faucet
Callers == {"c1", "c2", "c3"}

\* NewFaucet: the lock channel holds its one token, nobody has called yet
NewFaucet ==
    /\ muCh = 1
    /\ pc = [c \in Callers |-> "start"]
    /\ ctxDone = [c \in Callers |-> FALSE]
    /\ accountsToFund = [c \in Callers |-> <<>>]
    /\ collected = [c \in Callers |-> <<>>]
    /\ requests = [c \in Callers |-> <<>>]
    /\ FundedCh = [c \in Callers |-> <<>>]
    /\ retErr = [c \in Callers |-> "none"]
    /\ sent = [c \in Callers |-> 0]
    /\ broadcasts = <<>>

\* the committed store as one value, as the handlers see it
Store == [tokens |-> tokens, balances |-> balances, supply |-> supply,
          frozen |-> frozen, whitelisted |-> whitelisted]

(***************************************************************************)
(* Reads.                                                                  *)
(***************************************************************************)
GetToken(st, denom) == st.tokens[denom]

TokenExists(st, denom) == denom \in DOMAIN st.tokens /\ st.tokens[denom] # NoToken

GetBalance(st, addr, denom) == st.balances[denom][addr]

GetFrozenBalance(st, addr, denom) == st.frozen[denom][addr]

GetWhitelistedBalance(st, addr, denom) == st.whitelisted[denom][addr]

\* the query service, as the clients read the store
Token(st, denom) ==
    IF ~TokenExists(st, denom) THEN [err |-> ErrTokenNotFound]
    ELSE [err |-> NoErr, token |-> GetToken(st, denom)]

FrozenBalance(st, account, denom) ==
    IF account \notin Accounts THEN [err |-> ErrInvalidAddress]
    ELSE [err |-> NoErr,
          balance |-> [denom |-> denom, amount |-> GetFrozenBalance(st, account, denom)]]

WhitelistedBalance(st, account, denom) ==
    IF account \notin Accounts THEN [err |-> ErrInvalidAddress]
    ELSE [err |-> NoErr,
          balance |-> [denom |-> denom, amount |-> GetWhitelistedBalance(st, account, denom)]]

IsFeatureEnabled(ft, feature) == feature \in ft.features

IsIssuer(ft, addr) == ft.issuer = addr

(***************************************************************************)
(* Outcome of a handler: the error (NoErr on success), the store after it  *)
(* (the store before it when it failed) and the amount the send hook had   *)
(* the bank burn, and the typed events of the message, none when it failed.*)
(***************************************************************************)
Fail(st, err) == [err |-> err, st |-> st, burned |-> 0, events |-> <<>>]

Done(st, burned) == [err |-> NoErr, st |-> st, burned |-> burned, events |-> <<>>]

Emit(r, event) == [r EXCEPT !.events = Append(@, event)]

NewCoin(denom, amount) == [denom |-> denom, amount |-> amount]

(***************************************************************************)
(* Typed events.                                                           *)
(***************************************************************************)
EventTokenIssued(ft, initial_amount) ==
    [type |-> "EventTokenIssued", denom |-> ft.denom, issuer |-> ft.issuer,
     symbol |-> ft.symbol, subunit |-> ft.subunit, precision |-> ft.precision,
     initial_amount |-> initial_amount, description |-> ft.description,
     features |-> ft.features, burn_rate |-> ft.burn_rate]

EventFrozenAmountChanged(account, denom, previous, current) ==
    [type |-> "EventFrozenAmountChanged", account |-> account,
     previous_amount |-> NewCoin(denom, previous),
     current_amount |-> NewCoin(denom, current)]

EventWhitelistedAmountChanged(account, denom, previous, current) ==
    [type |-> "EventWhitelistedAmountChanged", account |-> account, denom |-> denom,
     previous_amount |-> previous, current_amount |-> current]

(***************************************************************************)
(* Issuer-op gate: the sender must be the token's issuer and the token     *)
(* must have the feature the operation requires.                           *)
(***************************************************************************)
checkFeatureAllowed(ft, sender, feature) ==
    IF ~IsIssuer(ft, sender) THEN ErrUnauthorized
    ELSE IF ~IsFeatureEnabled(ft, feature) THEN ErrFeatureNotActive
    ELSE NoErr

(***************************************************************************)
(* Bank primitives the module uses.                                        *)
(***************************************************************************)
AddBalance(st, addr, denom, amount) ==
    [st EXCEPT !.balances[denom][addr] = @ + amount]

MintCoins(st, addr, denom, amount) ==
    [AddBalance(st, addr, denom, amount) EXCEPT !.supply[denom] = @ + amount]

\* mutant: the burned coins leave the account but stay in the supply
BurnCoins_SupplyKept(st, addr, denom, amount) ==
    AddBalance(st, addr, denom, 0 - amount)

BurnCoins(st, addr, denom, amount) ==
    [AddBalance(st, addr, denom, 0 - amount) EXCEPT !.supply[denom] = @ - amount]

(***************************************************************************)
(* Issue: builds the denom, stores the FT record and mints the initial     *)
(* amount to the issuer.                                                   *)
(***************************************************************************)
\* mutant: the record is written but the initial amount is not minted
Issue_NoInitialMint(st, msg) ==
    LET denom == BuildDenom(msg.subunit, msg.issuer)
        ft == [denom |-> denom, issuer |-> msg.issuer, symbol |-> msg.symbol,
               subunit |-> msg.subunit, precision |-> msg.precision,
               description |-> msg.description, features |-> msg.features,
               burn_rate |-> msg.burn_rate, globally_frozen |-> FALSE]
    IN  IF ~ValidateSubunit(msg.subunit) THEN Fail(st, ErrInvalidSubunit)
        ELSE IF TokenExists(st, denom) THEN Fail(st, ErrAlreadyExists)
        ELSE Emit(Done([st EXCEPT !.tokens[denom] = ft], 0),
                  EventTokenIssued(ft, msg.initial_amount))

\* mutant: a second Issue of the same subunit replaces the record
Issue_Overwrites(st, msg) ==
    LET denom == BuildDenom(msg.subunit, msg.issuer)
        ft == [denom |-> denom, issuer |-> msg.issuer, symbol |-> msg.symbol,
               subunit |-> msg.subunit, precision |-> msg.precision,
               description |-> msg.description, features |-> msg.features,
               burn_rate |-> msg.burn_rate, globally_frozen |-> FALSE]
    IN  IF ~ValidateSubunit(msg.subunit) THEN Fail(st, ErrInvalidSubunit)
        ELSE Emit(Done(MintCoins([st EXCEPT !.tokens[denom] = ft],
                                 msg.issuer, denom, msg.initial_amount), 0),
                  EventTokenIssued(ft, msg.initial_amount))

\* mutant: the initial amount is minted but the record is not stored
Issue_RecordNotStored(st, msg) ==
    LET denom == BuildDenom(msg.subunit, msg.issuer)
        ft == [denom |-> denom, issuer |-> msg.issuer, symbol |-> msg.symbol,
               subunit |-> msg.subunit, precision |-> msg.precision,
               description |-> msg.description, features |-> msg.features,
               burn_rate |-> msg.burn_rate, globally_frozen |-> FALSE]
    IN  IF ~ValidateSubunit(msg.subunit) THEN Fail(st, ErrInvalidSubunit)
        ELSE IF TokenExists(st, denom) THEN Fail(st, ErrAlreadyExists)
        ELSE Emit(Done(MintCoins(st, msg.issuer, denom, msg.initial_amount), 0),
                  EventTokenIssued(ft, msg.initial_amount))

Issue(st, msg) ==
    LET denom == BuildDenom(msg.subunit, msg.issuer)
        ft == [denom |-> denom, issuer |-> msg.issuer, symbol |-> msg.symbol,
               subunit |-> msg.subunit, precision |-> msg.precision,
               description |-> msg.description, features |-> msg.features,
               burn_rate |-> msg.burn_rate, globally_frozen |-> FALSE]
    IN  IF ~ValidateSubunit(msg.subunit) THEN Fail(st, ErrInvalidSubunit)
        ELSE IF TokenExists(st, denom) THEN Fail(st, ErrAlreadyExists)
        ELSE Emit(Done(MintCoins([st EXCEPT !.tokens[denom] = ft],
                                 msg.issuer, denom, msg.initial_amount), 0),
                  EventTokenIssued(ft, msg.initial_amount))

(***************************************************************************)
(* Freeze and Unfreeze of an account's amount, by the issuer.              *)
(***************************************************************************)
\* mutant: the amount replaces the frozen amount instead of adding to it
Freeze_SetsAmount(st, sender, addr, denom, amount) ==
    IF ~TokenExists(st, denom) THEN Fail(st, ErrTokenNotFound)
    ELSE LET err == checkFeatureAllowed(GetToken(st, denom), sender, TokenFeature_freeze)
         IN  IF err # NoErr THEN Fail(st, err)
             ELSE Emit(Done([st EXCEPT !.frozen[denom][addr] = amount], 0),
                       EventFrozenAmountChanged(addr, denom,
                           GetFrozenBalance(st, addr, denom), amount))

\* mutant: the freeze feature is not looked at
Freeze_FeatureUnchecked(st, sender, addr, denom, amount) ==
    IF ~TokenExists(st, denom) THEN Fail(st, ErrTokenNotFound)
    ELSE IF ~IsIssuer(GetToken(st, denom), sender) THEN Fail(st, ErrUnauthorized)
         ELSE Emit(Done([st EXCEPT !.frozen[denom][addr] = @ + amount], 0),
                   EventFrozenAmountChanged(addr, denom,
                       GetFrozenBalance(st, addr, denom),
                       GetFrozenBalance(st, addr, denom) + amount))

\* mutant: no more than the balance can be frozen
Freeze_WithinBalance(st, sender, addr, denom, amount) ==
    IF ~TokenExists(st, denom) THEN Fail(st, ErrTokenNotFound)
    ELSE LET err == checkFeatureAllowed(GetToken(st, denom), sender, TokenFeature_freeze)
         IN  IF err # NoErr THEN Fail(st, err)
             ELSE IF GetFrozenBalance(st, addr, denom) + amount
                         > GetBalance(st, addr, denom)
                  THEN Fail(st, ErrNotEnoughBalance)
                  ELSE Emit(Done([st EXCEPT !.frozen[denom][addr] = @ + amount], 0),
                            EventFrozenAmountChanged(addr, denom,
                                GetFrozenBalance(st, addr, denom),
                                GetFrozenBalance(st, addr, denom) + amount))

Freeze(st, sender, addr, denom, amount) ==
    IF ~TokenExists(st, denom) THEN Fail(st, ErrTokenNotFound)
    ELSE LET err == checkFeatureAllowed(GetToken(st, denom), sender, TokenFeature_freeze)
         IN  IF err # NoErr THEN Fail(st, err)
             ELSE Emit(Done([st EXCEPT !.frozen[denom][addr] = @ + amount], 0),
                       EventFrozenAmountChanged(addr, denom,
                           GetFrozenBalance(st, addr, denom),
                           GetFrozenBalance(st, addr, denom) + amount))

\* mutant: the amount is taken off without looking at what is frozen
Unfreeze_Unchecked(st, sender, addr, denom, amount) ==
    IF ~TokenExists(st, denom) THEN Fail(st, ErrTokenNotFound)
    ELSE LET err == checkFeatureAllowed(GetToken(st, denom), sender, TokenFeature_freeze)
         IN  IF err # NoErr THEN Fail(st, err)
             ELSE Emit(Done([st EXCEPT !.frozen[denom][addr] = @ - amount], 0),
                       EventFrozenAmountChanged(addr, denom,
                           GetFrozenBalance(st, addr, denom),
                           GetFrozenBalance(st, addr, denom) - amount))

Unfreeze(st, sender, addr, denom, amount) ==
    IF ~TokenExists(st, denom) THEN Fail(st, ErrTokenNotFound)
    ELSE LET err == checkFeatureAllowed(GetToken(st, denom), sender, TokenFeature_freeze)
         IN  IF err # NoErr THEN Fail(st, err)
             ELSE IF GetFrozenBalance(st, addr, denom) < amount
                  THEN Fail(st, ErrNotEnoughBalance)
                  ELSE Emit(Done([st EXCEPT !.frozen[denom][addr] = @ - amount], 0),
                            EventFrozenAmountChanged(addr, denom,
                                GetFrozenBalance(st, addr, denom),
                                GetFrozenBalance(st, addr, denom) - amount))

(***************************************************************************)
(* GloballyFreeze and GloballyUnfreeze set and clear the token's flag.     *)
(***************************************************************************)
SetGloballyFrozen(st, sender, denom, flag) ==
    IF ~TokenExists(st, denom) THEN Fail(st, ErrTokenNotFound)
    ELSE LET err == checkFeatureAllowed(GetToken(st, denom), sender, TokenFeature_freeze)
         IN  IF err # NoErr THEN Fail(st, err)
             ELSE Done([st EXCEPT !.tokens[denom].globally_frozen = flag], 0)

\* mutant: a second GloballyFreeze of a frozen token is an error
GloballyFreeze_OnceOnly(st, sender, denom) ==
    IF TokenExists(st, denom) /\ GetToken(st, denom).globally_frozen
    THEN Fail(st, ErrGloballyFrozen)
    ELSE SetGloballyFrozen(st, sender, denom, TRUE)

GloballyFreeze(st, sender, denom) == SetGloballyFrozen(st, sender, denom, TRUE)

\* mutant: a global freeze cannot be taken back
GloballyUnfreeze_NoOp(st, sender, denom) ==
    IF ~TokenExists(st, denom) THEN Fail(st, ErrTokenNotFound)
    ELSE LET err == checkFeatureAllowed(GetToken(st, denom), sender, TokenFeature_freeze)
         IN  IF err # NoErr THEN Fail(st, err) ELSE Done(st, 0)

GloballyUnfreeze(st, sender, denom) == SetGloballyFrozen(st, sender, denom, FALSE)

(***************************************************************************)
(* SetWhitelistedLimit sets the absolute limit of an account.              *)
(***************************************************************************)
\* mutant: the sender of the message is not held against the issuer
SetWhitelistedLimit_AnySender(st, sender, addr, denom, amount) ==
    IF ~TokenExists(st, denom) THEN Fail(st, ErrTokenNotFound)
    ELSE IF ~IsFeatureEnabled(GetToken(st, denom), TokenFeature_whitelist)
         THEN Fail(st, ErrFeatureNotActive)
         ELSE Emit(Done([st EXCEPT !.whitelisted[denom][addr] = amount], 0),
                   EventWhitelistedAmountChanged(addr, denom,
                       GetWhitelistedBalance(st, addr, denom), amount))

\* mutant: a limit below the account's balance is refused
SetWhitelistedLimit_NotBelowBalance(st, sender, addr, denom, amount) ==
    IF ~TokenExists(st, denom) THEN Fail(st, ErrTokenNotFound)
    ELSE LET err == checkFeatureAllowed(GetToken(st, denom), sender,
                                        TokenFeature_whitelist)
         IN  IF err # NoErr THEN Fail(st, err)
             ELSE IF amount < GetBalance(st, addr, denom)
                  THEN Fail(st, ErrWhitelistedLimitExceeded)
                  ELSE Emit(Done([st EXCEPT !.whitelisted[denom][addr] = amount], 0),
                            EventWhitelistedAmountChanged(addr, denom,
                                GetWhitelistedBalance(st, addr, denom), amount))

SetWhitelistedLimit(st, sender, addr, denom, amount) ==
    IF ~TokenExists(st, denom) THEN Fail(st, ErrTokenNotFound)
    ELSE LET err == checkFeatureAllowed(GetToken(st, denom), sender,
                                        TokenFeature_whitelist)
         IN  IF err # NoErr THEN Fail(st, err)
             ELSE Emit(Done([st EXCEPT !.whitelisted[denom][addr] = amount], 0),
                       EventWhitelistedAmountChanged(addr, denom,
                           GetWhitelistedBalance(st, addr, denom), amount))

(***************************************************************************)
(* Send hook.  The bank calls it before it moves the coins of a Send or a  *)
(* MultiSend; `outputs` is the sequence of [address, amount] the sender    *)
(* pays, `burn` the amount the burn rate adds to the sender's charge.      *)
(***************************************************************************)
RECURSIVE SumAmounts(_)
SumAmounts(outputs) ==
    IF outputs = <<>> THEN 0
    ELSE Head(outputs).amount + SumAmounts(Tail(outputs))

\* amount * burn_rate, truncated to an integer amount of coins
CalculateBurnAmount(ft, amount) == (amount * ft.burn_rate) \div OneDec

\* mutant: the burn rate spares nobody
SendBurnAmount_IssuerNotExempt(ft, sender, recipient, amount) ==
    IF ft.burn_rate > 0 THEN CalculateBurnAmount(ft, amount) ELSE 0

\* mutant: the burn rate spares the issuer as sender only
SendBurnAmount_RecipientNotExempt(ft, sender, recipient, amount) ==
    IF ft.burn_rate > 0 /\ ~IsIssuer(ft, sender)
    THEN CalculateBurnAmount(ft, amount)
    ELSE 0

\* Send: the burn rate applies unless the sender or the recipient is the issuer
SendBurnAmount(ft, sender, recipient, amount) ==
    IF ft.burn_rate > 0 /\ ~IsIssuer(ft, sender) /\ ~IsIssuer(ft, recipient)
    THEN CalculateBurnAmount(ft, amount)
    ELSE 0

RECURSIVE SumBurnAmounts(_, _)
SumBurnAmounts(ft, outputs) ==
    IF outputs = <<>> THEN 0
    ELSE CalculateBurnAmount(ft, Head(outputs).amount)
         + SumBurnAmounts(ft, Tail(outputs))

\* mutant: one burn on the whole input instead of one per output
MultiSendBurnAmount_OncePerInput(ft, sender, outputs) ==
    IF ft.burn_rate > 0 /\ ~IsIssuer(ft, sender)
    THEN CalculateBurnAmount(ft, SumAmounts(outputs))
    ELSE 0

RECURSIVE SumBurnAmountsToHolders(_, _)
SumBurnAmountsToHolders(ft, outputs) ==
    IF outputs = <<>> THEN 0
    ELSE (IF IsIssuer(ft, Head(outputs).address) THEN 0
          ELSE CalculateBurnAmount(ft, Head(outputs).amount))
         + SumBurnAmountsToHolders(ft, Tail(outputs))

\* mutant: the outputs paid to the issuer are spared
MultiSendBurnAmount_IssuerOutputExempt(ft, sender, outputs) ==
    IF ft.burn_rate > 0 /\ ~IsIssuer(ft, sender)
    THEN SumBurnAmountsToHolders(ft, outputs)
    ELSE 0

\* MultiSend: the burn rate applies to every output of a sender that is not
\* the issuer, whoever receives it
MultiSendBurnAmount(ft, sender, outputs) ==
    IF ft.burn_rate > 0 /\ ~IsIssuer(ft, sender)
    THEN SumBurnAmounts(ft, outputs)
    ELSE 0

\* what the account may spend: balance minus frozen amount, not below zero
spendable(st, addr, denom) ==
    Max(0, GetBalance(st, addr, denom) - GetFrozenBalance(st, addr, denom))

\* mutant: the issuer may send while the token is globally frozen
isGloballyFrozen_IssuerExempt(ft, sender) == ft.globally_frozen /\ ~IsIssuer(ft, sender)

\* mutant: the flag is not looked at
isGloballyFrozen_Unchecked(ft, sender) == FALSE

\* the global freeze stops every sender, the issuer included
isGloballyFrozen(ft, sender) == ft.globally_frozen

\* mutant: the frozen amount is not taken off the balance
isCoinSpendable_IgnoresFrozen(st, ft, addr, amount) ==
    IsFeatureEnabled(ft, TokenFeature_freeze) => amount <= GetBalance(st, addr, ft.denom)

\* mutant: the whole spendable amount cannot be sent
isCoinSpendable_Strict(st, ft, addr, amount) ==
    IsFeatureEnabled(ft, TokenFeature_freeze) => amount < spendable(st, addr, ft.denom)

isCoinSpendable(st, ft, addr, amount) ==
    IsFeatureEnabled(ft, TokenFeature_freeze) => amount <= spendable(st, addr, ft.denom)

\* mutant: a balance equal to the limit is already too much
isCoinReceivable_Strict(st, ft, addr, amount) ==
    (IsFeatureEnabled(ft, TokenFeature_whitelist) /\ ~IsIssuer(ft, addr))
        => GetBalance(st, addr, ft.denom) + amount
               < GetWhitelistedBalance(st, addr, ft.denom)

\* mutant: the amount alone is held against the limit, not the balance after it
isCoinReceivable_AmountOnly(st, ft, addr, amount) ==
    (IsFeatureEnabled(ft, TokenFeature_whitelist) /\ ~IsIssuer(ft, addr))
        => amount <= GetWhitelistedBalance(st, addr, ft.denom)

\* mutant: the issuer needs a limit like everybody else
isCoinReceivable_IssuerNotExempt(st, ft, addr, amount) ==
    IsFeatureEnabled(ft, TokenFeature_whitelist)
        => GetBalance(st, addr, ft.denom) + amount
               <= GetWhitelistedBalance(st, addr, ft.denom)

isCoinReceivable(st, ft, addr, amount) ==
    (IsFeatureEnabled(ft, TokenFeature_whitelist) /\ ~IsIssuer(ft, addr))
        => GetBalance(st, addr, ft.denom) + amount
               <= GetWhitelistedBalance(st, addr, ft.denom)

(***************************************************************************)
(* Mint and Burn by the issuer.  The minted coins are received by the      *)
(* issuer, which the whitelist lets receive without a limit.               *)
(***************************************************************************)
\* mutant: the minted coins are held against the issuer's whitelisted limit
Mint_WithinWhitelistedLimit(st, sender, denom, amount) ==
    IF ~TokenExists(st, denom) THEN Fail(st, ErrTokenNotFound)
    ELSE LET err == checkFeatureAllowed(GetToken(st, denom), sender, TokenFeature_mint)
         IN  IF err # NoErr THEN Fail(st, err)
             ELSE IF ~isCoinReceivable_IssuerNotExempt(st, GetToken(st, denom),
                                                       sender, amount)
                  THEN Fail(st, ErrWhitelistedLimitExceeded)
                  ELSE Done(MintCoins(st, sender, denom, amount), 0)

\* mutant: the mint feature is not looked at
Mint_FeatureUnchecked(st, sender, denom, amount) ==
    IF ~TokenExists(st, denom) THEN Fail(st, ErrTokenNotFound)
    ELSE IF ~IsIssuer(GetToken(st, denom), sender) THEN Fail(st, ErrUnauthorized)
         ELSE Done(MintCoins(st, sender, denom, amount), 0)

\* mutant: the mint feature is used up by the first mint
Mint_DropsMintFeature(st, sender, denom, amount) ==
    IF ~TokenExists(st, denom) THEN Fail(st, ErrTokenNotFound)
    ELSE LET err == checkFeatureAllowed(GetToken(st, denom), sender, TokenFeature_mint)
         IN  IF err # NoErr THEN Fail(st, err)
             ELSE IF ~isCoinReceivable(st, GetToken(st, denom), sender, amount)
                  THEN Fail(st, ErrWhitelistedLimitExceeded)
                  ELSE Done(MintCoins([st EXCEPT !.tokens[denom].features =
                                                     @ \ {TokenFeature_mint}],
                                      sender, denom, amount), 0)

Mint(st, sender, denom, amount) ==
    IF ~TokenExists(st, denom) THEN Fail(st, ErrTokenNotFound)
    ELSE LET err == checkFeatureAllowed(GetToken(st, denom), sender, TokenFeature_mint)
         IN  IF err # NoErr THEN Fail(st, err)
             ELSE IF ~isCoinReceivable(st, GetToken(st, denom), sender, amount)
                  THEN Fail(st, ErrWhitelistedLimitExceeded)
                  ELSE Done(MintCoins(st, sender, denom, amount), 0)

\* mutant: the coins leave the issuer's balance but stay in the supply
Burn_SupplyKept(st, sender, denom, amount) ==
    IF ~TokenExists(st, denom) THEN Fail(st, ErrTokenNotFound)
    ELSE LET err == checkFeatureAllowed(GetToken(st, denom), sender, TokenFeature_burn)
         IN  IF err # NoErr THEN Fail(st, err)
             ELSE IF GetBalance(st, sender, denom) < amount
                  THEN Fail(st, ErrInsufficientFunds)
                  ELSE Done(AddBalance(st, sender, denom, 0 - amount), 0)

Burn(st, sender, denom, amount) ==
    IF ~TokenExists(st, denom) THEN Fail(st, ErrTokenNotFound)
    ELSE LET err == checkFeatureAllowed(GetToken(st, denom), sender, TokenFeature_burn)
         IN  IF err # NoErr THEN Fail(st, err)
             ELSE IF GetBalance(st, sender, denom) < amount
                  THEN Fail(st, ErrInsufficientFunds)
                  ELSE Done(BurnCoins(st, sender, denom, amount), 0)

\* mutant: the global freeze is looked at after the other policies
BeforeSend_GlobalFreezeLast(st, sender, denom, outputs, burn) ==
    IF ~TokenExists(st, denom) THEN NoErr
    ELSE LET ft == GetToken(st, denom)
         IN  IF ~isCoinSpendable(st, ft, sender, SumAmounts(outputs) + burn)
             THEN ErrInsufficientFunds
             ELSE IF \E i \in DOMAIN outputs :
                        ~isCoinReceivable(st, ft, outputs[i].address, outputs[i].amount)
                  THEN ErrWhitelistedLimitExceeded
             ELSE IF isGloballyFrozen(ft, sender) THEN ErrGloballyFrozen
             ELSE NoErr

BeforeSend(st, sender, denom, outputs, burn) ==
    IF ~TokenExists(st, denom) THEN NoErr
    ELSE LET ft == GetToken(st, denom)
         IN  IF isGloballyFrozen(ft, sender) THEN ErrGloballyFrozen
             ELSE IF ~isCoinSpendable(st, ft, sender, SumAmounts(outputs) + burn)
                  THEN ErrInsufficientFunds
             ELSE IF \E i \in DOMAIN outputs :
                        ~isCoinReceivable(st, ft, outputs[i].address, outputs[i].amount)
                  THEN ErrWhitelistedLimitExceeded
             ELSE NoErr

(***************************************************************************)
(* The bank's transfer: hook, then debit of the sender, credit of the      *)
(* recipients and burn of the burn amount, all or nothing.                 *)
(***************************************************************************)
RECURSIVE AddOutputs(_, _, _)
AddOutputs(st, denom, outputs) ==
    IF outputs = <<>> THEN st
    ELSE AddOutputs(AddBalance(st, Head(outputs).address, denom, Head(outputs).amount),
                    denom, Tail(outputs))

Transfer(st, sender, denom, outputs, burn) ==
    LET err == BeforeSend(st, sender, denom, outputs, burn)
        total == SumAmounts(outputs)
    IN  IF err # NoErr THEN Fail(st, err)
        ELSE IF GetBalance(st, sender, denom) < total + burn
             THEN Fail(st, ErrInsufficientFunds)
        ELSE Done(BurnCoins(AddOutputs(AddBalance(st, sender, denom, 0 - total),
                                       denom, outputs),
                            sender, denom, burn), burn)

\* mutant: the hook is asked about the amount alone and the burn is taken
\* afterwards from what the sender still holds
SendCoins_BurnUnchecked(st, from, to, denom, amount) ==
    LET burn == IF TokenExists(st, denom)
                THEN SendBurnAmount(GetToken(st, denom), from, to, amount) ELSE 0
        r == Transfer(st, from, denom, <<[address |-> to, amount |-> amount]>>, 0)
    IN  IF r.err # NoErr \/ burn = 0 THEN r
        ELSE IF GetBalance(r.st, from, denom) < burn THEN Fail(st, ErrInsufficientFunds)
        ELSE Done(BurnCoins(r.st, from, denom, burn), burn)

\* mutant: what was sent is taken off the sender's frozen amount
SendCoins_ReleasesFrozen(st, from, to, denom, amount) ==
    LET r == Transfer(st, from, denom, <<[address |-> to, amount |-> amount]>>,
                      IF TokenExists(st, denom)
                      THEN SendBurnAmount(GetToken(st, denom), from, to, amount) ELSE 0)
    IN  IF r.err # NoErr THEN r
        ELSE [r EXCEPT !.st.frozen[denom][from] = Max(0, @ - amount)]

\* mutant: the bank refuses a denom the module has no record of
SendCoins_UnknownDenomRejected(st, from, to, denom, amount) ==
    IF ~TokenExists(st, denom) THEN Fail(st, ErrTokenNotFound)
    ELSE Transfer(st, from, denom, <<[address |-> to, amount |-> amount]>>,
                  SendBurnAmount(GetToken(st, denom), from, to, amount))

SendCoins(st, from, to, denom, amount) ==
    Transfer(st, from, denom, <<[address |-> to, amount |-> amount]>>,
             IF TokenExists(st, denom)
             THEN SendBurnAmount(GetToken(st, denom), from, to, amount) ELSE 0)

InputOutputCoins(st, from, denom, outputs) ==
    Transfer(st, from, denom, outputs,
             IF TokenExists(st, denom)
             THEN MultiSendBurnAmount(GetToken(st, denom), from, outputs) ELSE 0)

(***************************************************************************)
(* The state machine: one message per step.                                *)
(***************************************************************************)
ZeroLedger == [d \in Denoms |-> [a \in Accounts |-> 0]]

Init ==
    /\ tokens = [d \in Denoms |-> NoToken]
    /\ balances = ZeroLedger
    /\ supply = [d \in Denoms |-> 0]
    /\ frozen = ZeroLedger
    /\ whitelisted = ZeroLedger
    /\ last = [msg |-> [type |-> "none"], err |-> NoErr, burned |-> 0,
               events |-> <<>>]
    /\ before = Store
    /\ NewFaucet
    /\ cmd = NoCmd

\* commit the outcome `r` of message `msg`
Deliver(msg, r) ==
    /\ tokens' = r.st.tokens
    /\ balances' = r.st.balances
    /\ supply' = r.st.supply
    /\ frozen' = r.st.frozen
    /\ whitelisted' = r.st.whitelisted
    /\ last' = [msg |-> msg, err |-> r.err, burned |-> r.burned,
                events |-> r.events]
    /\ before' = Store
    /\ UNCHANGED <<faucetVars, cliVars>>

MsgIssue ==
    \E issuer \in Issuers, subunit \in Subunits, k \in IssueKinds :
        LET msg == [type |-> "Issue", issuer |-> issuer, symbol |-> "ABC",
                    subunit |-> subunit, precision |-> 6, description |-> "ABC Description",
                    initial_amount |-> k.initial_amount, features |-> k.features,
                    burn_rate |-> k.burn_rate]
        IN  Deliver(msg, Issue(Store, msg))

\* An issuer message of a sender that is not an issuer is rejected whatever
\* account and amount it names, so it is offered with one of each.
IssuerOpInputs ==
    {<<sender, account, amount>> \in Accounts \X Accounts \X (0..MaxAmount) :
        sender \in Issuers \/ (account = "r1" /\ amount = 1)}

MsgMint ==
    \E in \in IssuerOpInputs, denom \in Denoms :
        /\ in[2] = "r1" /\ in[3] \in Amounts
        /\ supply[denom] + in[3] <= MaxSupply
        /\ Deliver([type |-> "Mint", sender |-> in[1], denom |-> denom,
                    amount |-> in[3]],
                   Mint(Store, in[1], denom, in[3]))

MsgBurn ==
    \E in \in IssuerOpInputs, denom \in Denoms :
        /\ in[2] = "r1" /\ in[3] \in Amounts
        /\ Deliver([type |-> "Burn", sender |-> in[1], denom |-> denom,
                    amount |-> in[3]],
                   Burn(Store, in[1], denom, in[3]))

MsgFreeze ==
    \E in \in IssuerOpInputs, denom \in Denoms :
        /\ in[2] \in FreezeTargets /\ in[3] \in Amounts
        /\ frozen[denom][in[2]] + in[3] <= MaxAmount
        /\ Deliver([type |-> "Freeze", sender |-> in[1], account |-> in[2],
                    denom |-> denom, amount |-> in[3]],
                   Freeze(Store, in[1], in[2], denom, in[3]))

MsgUnfreeze ==
    \E in \in IssuerOpInputs, denom \in Denoms :
        /\ in[2] \in FreezeTargets /\ in[3] \in Amounts
        /\ Deliver([type |-> "Unfreeze", sender |-> in[1], account |-> in[2],
                    denom |-> denom, amount |-> in[3]],
                   Unfreeze(Store, in[1], in[2], denom, in[3]))

MsgGloballyFreeze ==
    \E sender \in Accounts, denom \in Denoms :
        Deliver([type |-> "GloballyFreeze", sender |-> sender, denom |-> denom],
                GloballyFreeze(Store, sender, denom))

MsgGloballyUnfreeze ==
    \E sender \in Accounts, denom \in Denoms :
        Deliver([type |-> "GloballyUnfreeze", sender |-> sender, denom |-> denom],
                GloballyUnfreeze(Store, sender, denom))

MsgSetWhitelistedLimit ==
    \E in \in IssuerOpInputs, denom \in Denoms :
        Deliver([type |-> "SetWhitelistedLimit", sender |-> in[1],
                 account |-> in[2], denom |-> denom, amount |-> in[3]],
                SetWhitelistedLimit(Store, in[1], in[2], denom, in[3]))

MsgSend ==
    \E from \in Accounts, to \in Accounts, denom \in Denoms, amount \in Amounts :
        /\ from # to
        /\ Deliver([type |-> "Send", from |-> from, to |-> to, denom |-> denom,
                    amount |-> amount],
                   SendCoins(Store, from, to, denom, amount))

\* sender and the two recipients, in the order the outputs list them
OutputOrders ==
    {<<"r1", "issuer", "r2">>, <<"r1", "r2", "issuer">>, <<"issuer", "r1", "r2">>}

\* a MultiSend of one input and two outputs to two other accounts
MsgMultiSend ==
    \E o \in OutputOrders, denom \in Denoms, a1 \in Amounts, a2 \in Amounts :
        LET outputs == <<[address |-> o[2], amount |-> a1],
                         [address |-> o[3], amount |-> a2]>>
        IN  Deliver([type |-> "MultiSend", from |-> o[1], denom |-> denom,
                     outputs |-> outputs],
                    InputOutputCoins(Store, o[1], denom, outputs))

Next ==
    \/ MsgIssue
    \/ MsgMint
    \/ MsgBurn
    \/ MsgFreeze
    \/ MsgUnfreeze
    \/ MsgGloballyFreeze
    \/ MsgGloballyUnfreeze
    \/ MsgSetWhitelistedLimit
    \/ MsgSend
    \/ MsgMultiSend

Spec == Init /\ [][Next]_vars

(***************************************************************************)
(* Vocabulary of the properties.  `before` is the store the last message   *)
(* was delivered to, the variables are the store after it.                 *)
(***************************************************************************)
Committed == last.err = NoErr

\* the last message is a bank Send of `denom`, a token of the module
SendOf(denom) ==
    /\ last.msg.type = "Send"
    /\ last.msg.denom = denom
    /\ before.tokens[denom] # NoToken

\* the last message is a bank MultiSend of `denom`, a token of the module
MultiSendOf(denom) ==
    /\ last.msg.type = "MultiSend"
    /\ last.msg.denom = denom
    /\ before.tokens[denom] # NoToken

\* amount * rate truncated toward zero, rate in units of 1/OneDec
TruncMul(amount, rate) == (amount * rate) \div OneDec

\* the balances after `from` paid `amount` to `to` and `burn` to nobody
Moved(denom, from, to, amount, burn) ==
    [before.balances EXCEPT ![denom][from] = @ - amount - burn,
                            ![denom][to] = @ + amount]

LedgersUnchanged ==
    /\ tokens = before.tokens
    /\ balances = before.balances
    /\ supply = before.supply
    /\ frozen = before.frozen
    /\ whitelisted = before.whitelisted

\* what `addr` could spend of `denom` before the last message
SpendableBefore(denom, addr) ==
    Max(0, before.balances[denom][addr] - before.frozen[denom][addr])

\* the recipient's whitelisted limit did not stand in the way of the last Send
WhitelistAllowed(denom, to, amount) ==
    \/ TokenFeature_whitelist \notin before.tokens[denom].features
    \/ to = before.tokens[denom].issuer
    \/ before.balances[denom][to] + amount <= before.whitelisted[denom][to]

\* the burn the rate of `denom` puts on the last Send
BurnOfSend(denom) ==
    LET ft == before.tokens[denom]
    IN  IF ft.burn_rate > 0 /\ last.msg.from # ft.issuer /\ last.msg.to # ft.issuer
        THEN TruncMul(last.msg.amount, ft.burn_rate)
        ELSE 0

\* `addr` held `amount` of `denom` before the last message, outside what a
\* token with the freeze feature had frozen of it
CanPay(denom, addr, amount) ==
    /\ amount <= before.balances[denom][addr]
    /\ TokenFeature_freeze \in before.tokens[denom].features
           => amount <= SpendableBefore(denom, addr)

(***************************************************************************)
(* C1.  Token with the freeze feature and burn rate 0, not globally frozen,*)
(* recipient allowed by the whitelist: a Send of A by an account with      *)
(* balance B and frozen amount F commits iff A <= max(0, B - F); otherwise *)
(* it fails with ErrInsufficientFunds and no balance, frozen amount or     *)
(* supply changes.                                                         *)
(***************************************************************************)
C1_SendWithinSpendable ==
    \A d \in Denoms :
        ( /\ SendOf(d)
          /\ TokenFeature_freeze \in before.tokens[d].features
          /\ before.tokens[d].burn_rate = 0
          /\ ~before.tokens[d].globally_frozen
          /\ WhitelistAllowed(d, last.msg.to, last.msg.amount) )
        => LET A == last.msg.amount
               B == before.balances[d][last.msg.from]
               F == before.frozen[d][last.msg.from]
           IN  IF A <= Max(0, B - F)
               THEN /\ Committed
                    /\ balances = Moved(d, last.msg.from, last.msg.to, A, 0)
                    /\ frozen = before.frozen
                    /\ supply = before.supply
               ELSE /\ last.err = ErrInsufficientFunds
                    /\ LedgersUnchanged

\* a Send the balance would cover is rejected because part of it is frozen
C1_Witness ==
    \E d \in Denoms :
        /\ SendOf(d)
        /\ TokenFeature_freeze \in before.tokens[d].features
        /\ before.tokens[d].burn_rate = 0
        /\ ~before.tokens[d].globally_frozen
        /\ last.err = ErrInsufficientFunds
        /\ before.frozen[d][last.msg.from] > 0
        /\ before.balances[d][last.msg.from] >= last.msg.amount

(***************************************************************************)
(* C2.  Token with the whitelist feature, recipient not the issuer, token  *)
(* not globally frozen and sender able to pay: a Send of A to a recipient  *)
(* with balance B and whitelisted limit L commits iff B + A <= L;          *)
(* otherwise it fails with ErrWhitelistedLimitExceeded and nothing changes.*)
(***************************************************************************)
C2_SendWithinWhitelistedLimit ==
    \A d \in Denoms :
        ( /\ SendOf(d)
          /\ TokenFeature_whitelist \in before.tokens[d].features
          /\ last.msg.to # before.tokens[d].issuer
          /\ ~before.tokens[d].globally_frozen
          /\ CanPay(d, last.msg.from, last.msg.amount + BurnOfSend(d)) )
        => LET A == last.msg.amount
               B == before.balances[d][last.msg.to]
               L == before.whitelisted[d][last.msg.to]
           IN  IF B + A <= L
               THEN /\ Committed
                    /\ balances = Moved(d, last.msg.from, last.msg.to, A, BurnOfSend(d))
               ELSE /\ last.err = ErrWhitelistedLimitExceeded
                    /\ LedgersUnchanged

\* the recipient holds exactly its limit and one more unit is rejected
C2_Witness ==
    \E d \in Denoms :
        /\ SendOf(d)
        /\ TokenFeature_whitelist \in before.tokens[d].features
        /\ last.msg.to # before.tokens[d].issuer
        /\ last.err = ErrWhitelistedLimitExceeded
        /\ before.whitelisted[d][last.msg.to] > 0
        /\ before.balances[d][last.msg.to] = before.whitelisted[d][last.msg.to]
        /\ last.msg.amount = 1
        /\ before.balances[d][last.msg.from] >= 1

(***************************************************************************)
(* C3.  A committed Send of A of a token with burn_rate r > 0: when        *)
(* neither sender nor recipient is the issuer the sender loses             *)
(* A + trunc(A*r), the recipient gains A and the supply falls by           *)
(* trunc(A*r); when one of them is the issuer nothing is burned, the       *)
(* sender loses A and the supply stays.                                    *)
(***************************************************************************)
C3_SendBurnRate ==
    \A d \in Denoms :
        (SendOf(d) /\ Committed /\ before.tokens[d].burn_rate > 0)
        => LET ft == before.tokens[d]
               A == last.msg.amount
               burn == IF last.msg.from # ft.issuer /\ last.msg.to # ft.issuer
                       THEN TruncMul(A, ft.burn_rate) ELSE 0
           IN  /\ balances = Moved(d, last.msg.from, last.msg.to, A, burn)
               /\ supply = [before.supply EXCEPT ![d] = @ - burn]
               /\ last.burned = burn

\* a Send between two holders that burned something
C3_Witness ==
    \E d \in Denoms :
        /\ SendOf(d) /\ Committed
        /\ last.msg.from # before.tokens[d].issuer
        /\ last.msg.to # before.tokens[d].issuer
        /\ last.burned > 0
        /\ supply[d] < before.supply[d]

(***************************************************************************)
(* C4.  A committed MultiSend of one input of a sender that is not the     *)
(* issuer, of a token with burn_rate r > 0: every output, one paid to the  *)
(* issuer too, is burned on by itself; the sender loses the sum of the     *)
(* outputs plus the sum of trunc(output_i * r) and the supply falls by     *)
(* that sum.                                                               *)
(***************************************************************************)
C4_MultiSendBurnPerOutput ==
    \A d \in Denoms :
        ( /\ MultiSendOf(d) /\ Committed
          /\ before.tokens[d].burn_rate > 0
          /\ last.msg.from # before.tokens[d].issuer )
        => LET r == before.tokens[d].burn_rate
               o1 == last.msg.outputs[1]
               o2 == last.msg.outputs[2]
               burn == TruncMul(o1.amount, r) + TruncMul(o2.amount, r)
           IN  /\ balances[d][last.msg.from]
                      = before.balances[d][last.msg.from] - (o1.amount + o2.amount) - burn
               /\ balances[d][o1.address] = before.balances[d][o1.address] + o1.amount
               /\ balances[d][o2.address] = before.balances[d][o2.address] + o2.amount
               /\ supply[d] = before.supply[d] - burn

\* a MultiSend of a holder whose output to the issuer was burned on
C4_Witness ==
    \E d \in Denoms :
        /\ MultiSendOf(d) /\ Committed
        /\ last.msg.from # before.tokens[d].issuer
        /\ \E i \in {1, 2} :
              /\ last.msg.outputs[i].address = before.tokens[d].issuer
              /\ TruncMul(last.msg.outputs[i].amount, before.tokens[d].burn_rate) > 0
        /\ supply[d] < before.supply[d]

(***************************************************************************)
(* C5.  MultiSend of a holder with one output to the issuer and one to a   *)
(* third party, burn_rate r > 0.                                           *)
(* As claimed: only the output to the third party is burned on, the sender *)
(* loses the sum of the outputs plus trunc(third-party output * r).        *)
(***************************************************************************)
\* the last message is a committed MultiSend of a holder of `denom` that pays
\* output `i` to the issuer and output `j` to a third party
MultiSendToIssuerAndHolder(denom, i, j) ==
    /\ MultiSendOf(denom) /\ Committed
    /\ before.tokens[denom].burn_rate > 0
    /\ last.msg.from # before.tokens[denom].issuer
    /\ last.msg.outputs[i].address = before.tokens[denom].issuer
    /\ last.msg.outputs[j].address # before.tokens[denom].issuer

C5_OnlyThirdPartyOutputBurned ==
    \A d \in Denoms : \A i \in {1, 2}, j \in {1, 2} :
        MultiSendToIssuerAndHolder(d, i, j)
        => /\ last.burned = TruncMul(last.msg.outputs[j].amount, before.tokens[d].burn_rate)
           /\ before.balances[d][last.msg.from] - balances[d][last.msg.from]
                  = last.msg.outputs[i].amount + last.msg.outputs[j].amount
                    + TruncMul(last.msg.outputs[j].amount, before.tokens[d].burn_rate)

(***************************************************************************)
(* C5 as amended: the output to the issuer is burned on like the output to *)
(* the third party; the sender loses the sum of the outputs plus the burn  *)
(* of both outputs, and the issuer receives its output in full.            *)
(***************************************************************************)
C5_BothOutputsBurned ==
    \A d \in Denoms : \A i \in {1, 2}, j \in {1, 2} :
        MultiSendToIssuerAndHolder(d, i, j)
        => LET r == before.tokens[d].burn_rate
               toIssuer == last.msg.outputs[i].amount
               toHolder == last.msg.outputs[j].amount
           IN  /\ last.burned = TruncMul(toIssuer, r) + TruncMul(toHolder, r)
               /\ before.balances[d][last.msg.from] - balances[d][last.msg.from]
                      = toIssuer + toHolder + last.burned
               /\ balances[d][before.tokens[d].issuer]
                      = before.balances[d][before.tokens[d].issuer] + toIssuer

\* the sender lost more than its outputs and the burn of the third-party output
C5_Witness ==
    \E d \in Denoms : \E i \in {1, 2}, j \in {1, 2} :
        /\ MultiSendToIssuerAndHolder(d, i, j)
        /\ before.balances[d][last.msg.from] - balances[d][last.msg.from]
               > last.msg.outputs[i].amount + last.msg.outputs[j].amount
                 + TruncMul(last.msg.outputs[j].amount, before.tokens[d].burn_rate)

(***************************************************************************)
(* C6.  A successful GloballyFreeze sets the token's flag and the flag     *)
(* stays until a successful GloballyUnfreeze clears it; while it is set a  *)
(* Send whose sender is the issuer fails with ErrGloballyFrozen and moves  *)
(* nothing; once it is cleared a Send of the issuer that its spendable     *)
(* balance covers, to a recipient the whitelist allows, commits.           *)
(***************************************************************************)
C6_IssuerSendStoppedWhileGloballyFrozen ==
    \A d \in Denoms :
        /\ (last.msg.type = "GloballyFreeze" /\ last.msg.denom = d /\ Committed)
               => tokens[d].globally_frozen
        /\ (last.msg.type = "GloballyUnfreeze" /\ last.msg.denom = d /\ Committed)
               => ~tokens[d].globally_frozen
        /\ ( /\ before.tokens[d] # NoToken
             /\ before.tokens[d].globally_frozen
             /\ ~(last.msg.type = "GloballyUnfreeze" /\ last.msg.denom = d /\ Committed) )
               => tokens[d].globally_frozen
        /\ (SendOf(d) /\ last.msg.from = before.tokens[d].issuer)
               => IF before.tokens[d].globally_frozen
                  THEN last.err = ErrGloballyFrozen /\ LedgersUnchanged
                  ELSE ( /\ CanPay(d, last.msg.from, last.msg.amount)
                         /\ WhitelistAllowed(d, last.msg.to, last.msg.amount) )
                       => Committed

\* the issuer holds the amount and its Send is stopped by the global freeze
C6_Witness ==
    \E d \in Denoms :
        /\ SendOf(d)
        /\ last.msg.from = before.tokens[d].issuer
        /\ last.err = ErrGloballyFrozen
        /\ tokens[d].globally_frozen
        /\ before.balances[d][last.msg.from] >= last.msg.amount

(***************************************************************************)
(* C7.  While a token is globally frozen.                                  *)
(* As claimed: a Send of a sender that is not the issuer fails with        *)
(* ErrGloballyFrozen and changes no balance, and a Send of the issuer that *)
(* nothing else stops commits.                                             *)
(***************************************************************************)
C7_IssuerExemptFromGlobalFreeze ==
    \A d \in Denoms :
        (SendOf(d) /\ before.tokens[d].globally_frozen)
        => IF last.msg.from # before.tokens[d].issuer
           THEN last.err = ErrGloballyFrozen /\ balances = before.balances
           ELSE ( /\ CanPay(d, last.msg.from, last.msg.amount)
                  /\ WhitelistAllowed(d, last.msg.to, last.msg.amount) )
                => Committed

(***************************************************************************)
(* C7 as amended: while a token is globally frozen every Send of it fails  *)
(* with ErrGloballyFrozen and changes no balance, whoever sends it: the    *)
(* issuer is not exempt.                                                   *)
(***************************************************************************)
C7_EverySendStoppedWhileGloballyFrozen ==
    \A d \in Denoms :
        (SendOf(d) /\ before.tokens[d].globally_frozen)
        => /\ last.err = ErrGloballyFrozen
           /\ balances = before.balances
           /\ supply = before.supply

\* a holder's Send that its balance covers is stopped by the global freeze
C7_Witness ==
    \E d \in Denoms :
        /\ SendOf(d)
        /\ before.tokens[d].globally_frozen
        /\ last.msg.from # before.tokens[d].issuer
        /\ last.err = ErrGloballyFrozen
        /\ CanPay(d, last.msg.from, last.msg.amount + BurnOfSend(d))

(***************************************************************************)
(* C8.  As claimed: in every state, for every account and denom, the bank  *)
(* balance is greater than or equal to the frozen amount.                  *)
(***************************************************************************)
C8_BalanceCoversFrozen ==
    \A d \in Denoms : \A a \in Accounts : balances[d][a] >= frozen[d][a]

(***************************************************************************)
(* C8 as amended: a Freeze may put the frozen amount above the balance;    *)
(* what holds is that every committed Send and MultiSend leaves its        *)
(* sender's bank balance greater than or equal to its frozen amount.       *)
(***************************************************************************)
C8_SendLeavesFrozenCovered ==
    \A d \in Denoms :
        ((SendOf(d) \/ MultiSendOf(d)) /\ Committed)
        => /\ balances[d][last.msg.from] >= frozen[d][last.msg.from]
           /\ frozen = before.frozen

\* a committed Send that took the sender's balance down to its frozen amount
C8_Witness ==
    \E d \in Denoms :
        /\ SendOf(d) /\ Committed
        /\ frozen[d][last.msg.from] > 0
        /\ balances[d][last.msg.from] = frozen[d][last.msg.from]

C10_IssuerReceivesWithoutLimit ==
    \A d \in Denoms :
        ( /\ SendOf(d)
          /\ TokenFeature_whitelist \in before.tokens[d].features
          /\ last.msg.to = before.tokens[d].issuer )
        => /\ last.err # ErrWhitelistedLimitExceeded
           /\ ( /\ ~before.tokens[d].globally_frozen
                /\ CanPay(d, last.msg.from, last.msg.amount) )
              => /\ Committed
                 /\ balances[d][last.msg.to]
                        = before.balances[d][last.msg.to] + last.msg.amount

\* the issuer, with no limit stored, received coins of its whitelist token
C10_Witness ==
    \E d \in Denoms :
        /\ SendOf(d) /\ Committed
        /\ TokenFeature_whitelist \in before.tokens[d].features
        /\ last.msg.to = before.tokens[d].issuer
        /\ before.whitelisted[d][last.msg.to] = 0
        /\ balances[d][last.msg.to] > whitelisted[d][last.msg.to]

\* the last message is `type`, an issuer operation on `denom`, a token of the module
IssuerOpOf(type, denom) ==
    /\ last.msg.type = type
    /\ last.msg.denom = denom
    /\ before.tokens[denom] # NoToken

(***************************************************************************)
(* C11.  SetWhitelistedLimit by the issuer of a token with the whitelist   *)
(* feature commits for every limit, zero and limits below the account's    *)
(* balance included; it sets the limit and changes no balance.  While the  *)
(* limit of an account other than the issuer is zero, no Send and no       *)
(* MultiSend that pays it commits, and a Send that nothing else stops      *)
(* fails with ErrWhitelistedLimitExceeded.                                 *)
(***************************************************************************)
C11_LimitSetBelowBalanceStopsInbound ==
    \A d \in Denoms :
        /\ ( /\ IssuerOpOf("SetWhitelistedLimit", d)
             /\ last.msg.sender = before.tokens[d].issuer
             /\ TokenFeature_whitelist \in before.tokens[d].features )
               => /\ Committed
                  /\ whitelisted = [before.whitelisted EXCEPT
                                       ![d][last.msg.account] = last.msg.amount]
                  /\ balances = before.balances
                  /\ supply = before.supply
                  /\ frozen = before.frozen
                  /\ tokens = before.tokens
        /\ ( /\ SendOf(d)
             /\ TokenFeature_whitelist \in before.tokens[d].features
             /\ last.msg.to # before.tokens[d].issuer
             /\ before.whitelisted[d][last.msg.to] = 0 )
               => /\ ~Committed
                  /\ LedgersUnchanged
                  /\ ( /\ ~before.tokens[d].globally_frozen
                       /\ TokenFeature_freeze \in before.tokens[d].features
                              => last.msg.amount + BurnOfSend(d)
                                     <= SpendableBefore(d, last.msg.from) )
                     => last.err = ErrWhitelistedLimitExceeded
        /\ ( /\ MultiSendOf(d)
             /\ TokenFeature_whitelist \in before.tokens[d].features
             /\ \E i \in DOMAIN last.msg.outputs :
                   /\ last.msg.outputs[i].address # before.tokens[d].issuer
                   /\ before.whitelisted[d][last.msg.outputs[i].address] = 0 )
               => ~Committed /\ LedgersUnchanged

\* an account that still holds coins, its limit set to zero, is refused a Send
C11_Witness ==
    \E d \in Denoms :
        /\ SendOf(d)
        /\ TokenFeature_whitelist \in before.tokens[d].features
        /\ last.msg.to # before.tokens[d].issuer
        /\ before.whitelisted[d][last.msg.to] = 0
        /\ before.balances[d][last.msg.to] > 0
        /\ balances[d][last.msg.to] = before.balances[d][last.msg.to]
        /\ last.err = ErrWhitelistedLimitExceeded

\* the issuer operations and the feature each of them requires
IssuerOps ==
    {"Mint", "Burn", "Freeze", "Unfreeze", "GloballyFreeze", "GloballyUnfreeze",
     "SetWhitelistedLimit"}

RequiredFeature(type) ==
    CASE type = "Mint" -> TokenFeature_mint
      [] type = "Burn" -> TokenFeature_burn
      [] type = "SetWhitelistedLimit" -> TokenFeature_whitelist
      [] OTHER -> TokenFeature_freeze

C13_MintBurnFeatureNotActive ==
    \A d \in Denoms : \A type \in {"Mint", "Burn"} :
        ( /\ IssuerOpOf(type, d)
          /\ last.msg.sender = before.tokens[d].issuer
          /\ RequiredFeature(type) \notin before.tokens[d].features )
        => /\ last.err = ErrFeatureNotActive
           /\ balances[d][last.msg.sender] = before.balances[d][last.msg.sender]
           /\ supply[d] = before.supply[d]
           /\ LedgersUnchanged

\* the issuer holds the amount but the token has neither feature and a Mint is refused
C13_Witness ==
    \E d \in Denoms :
        /\ IssuerOpOf("Mint", d)
        /\ last.msg.sender = before.tokens[d].issuer
        /\ TokenFeature_mint \notin before.tokens[d].features
        /\ TokenFeature_burn \notin before.tokens[d].features
        /\ before.balances[d][last.msg.sender] >= last.msg.amount
        /\ last.err = ErrFeatureNotActive
        /\ supply[d] = before.supply[d]

(***************************************************************************)
(* C14.  Freeze, Unfreeze, GloballyFreeze and GloballyUnfreeze by the      *)
(* issuer of a token without the freeze feature, and SetWhitelistedLimit   *)
(* by the issuer of a token without the whitelist feature, fail with       *)
(* ErrFeatureNotActive; the frozen amounts, the whitelisted limits and the *)
(* globally_frozen flag stay as they were.                                 *)
(***************************************************************************)
C14_FreezeWhitelistFeatureNotActive ==
    \A d \in Denoms :
        \A type \in {"Freeze", "Unfreeze", "GloballyFreeze", "GloballyUnfreeze",
                     "SetWhitelistedLimit"} :
            ( /\ IssuerOpOf(type, d)
              /\ last.msg.sender = before.tokens[d].issuer
              /\ RequiredFeature(type) \notin before.tokens[d].features )
            => /\ last.err = ErrFeatureNotActive
               /\ frozen = before.frozen
               /\ whitelisted = before.whitelisted
               /\ tokens[d].globally_frozen = before.tokens[d].globally_frozen
               /\ LedgersUnchanged

\* the issuer of a token without the freeze feature is refused a Freeze
C14_Witness ==
    \E d \in Denoms :
        /\ IssuerOpOf("Freeze", d)
        /\ last.msg.sender = before.tokens[d].issuer
        /\ TokenFeature_freeze \notin before.tokens[d].features
        /\ last.msg.amount > 0
        /\ before.balances[d][last.msg.account] >= last.msg.amount
        /\ last.err = ErrFeatureNotActive
        /\ frozen[d][last.msg.account] = 0

(***************************************************************************)
(* C15.  An Unfreeze by the issuer of more than the account's frozen       *)
(* amount fails with ErrNotEnoughBalance and leaves the frozen amount as   *)
(* it was; in every state the frozen amount of every account and denom is  *)
(* zero or more.                                                           *)
(***************************************************************************)
C15_UnfreezeNotBelowZero ==
    /\ \A d \in Denoms :
           ( /\ IssuerOpOf("Unfreeze", d)
             /\ last.msg.sender = before.tokens[d].issuer
             /\ TokenFeature_freeze \in before.tokens[d].features
             /\ last.msg.amount > before.frozen[d][last.msg.account] )
           => /\ last.err = ErrNotEnoughBalance
              /\ frozen[d][last.msg.account] = before.frozen[d][last.msg.account]
              /\ LedgersUnchanged
    /\ \A d \in Denoms : \A a \in Accounts : frozen[d][a] >= 0

\* part of the amount is frozen and an Unfreeze of more than that is refused
C15_Witness ==
    \E d \in Denoms :
        /\ IssuerOpOf("Unfreeze", d)
        /\ last.msg.sender = before.tokens[d].issuer
        /\ before.frozen[d][last.msg.account] > 0
        /\ last.msg.amount > before.frozen[d][last.msg.account]
        /\ last.err = ErrNotEnoughBalance
        /\ frozen[d][last.msg.account] > 0

(***************************************************************************)
(* C16.  A committed Freeze of A adds exactly A to the frozen amount of    *)
(* the account and a committed Unfreeze of A takes exactly A off it; each  *)
(* emits one EventFrozenAmountChanged, of that account, whose              *)
(* previous_amount is the frozen coin before the message and whose         *)
(* current_amount is the frozen coin after it, and the FrozenBalance query *)
(* then answers current_amount.  Nothing else changes.                     *)
(***************************************************************************)
C16_FreezeUnfreezeExactAndEvent ==
    \A d \in Denoms : \A type \in {"Freeze", "Unfreeze"} :
        (IssuerOpOf(type, d) /\ Committed)
        => LET account == last.msg.account
               A == IF type = "Freeze" THEN last.msg.amount ELSE 0 - last.msg.amount
               previous == before.frozen[d][account]
           IN  /\ frozen = [before.frozen EXCEPT ![d][account] = previous + A]
               /\ tokens = before.tokens
               /\ balances = before.balances
               /\ supply = before.supply
               /\ whitelisted = before.whitelisted
               /\ Len(last.events) = 1
               /\ last.events[1].type = "EventFrozenAmountChanged"
               /\ last.events[1].account = account
               /\ last.events[1].previous_amount = [denom |-> d, amount |-> previous]
               /\ last.events[1].current_amount = [denom |-> d, amount |-> previous + A]
               /\ FrozenBalance(Store, account, d).err = NoErr
               /\ FrozenBalance(Store, account, d).balance = last.events[1].current_amount

\* a second Freeze on an account that already had an amount frozen
C16_Witness ==
    \E d \in Denoms :
        /\ IssuerOpOf("Freeze", d) /\ Committed
        /\ before.frozen[d][last.msg.account] > 0
        /\ last.msg.amount > 0
        /\ last.events[1].previous_amount.amount > 0
        /\ frozen[d][last.msg.account] > last.msg.amount

(***************************************************************************)
(* C17.  A Mint of A by the issuer of a token with the mint feature        *)
(* commits, also when the token has the whitelist feature and no limit is  *)
(* stored for the issuer; it adds exactly A to the issuer's balance and to *)
(* the supply of the denom and changes no other balance, no frozen amount, *)
(* no whitelisted limit and not the token record.                          *)
(***************************************************************************)
C17_MintByIssuer ==
    \A d \in Denoms :
        ( /\ IssuerOpOf("Mint", d)
          /\ last.msg.sender = before.tokens[d].issuer
          /\ TokenFeature_mint \in before.tokens[d].features )
        => /\ Committed
           /\ balances = [before.balances EXCEPT
                             ![d][last.msg.sender] = @ + last.msg.amount]
           /\ supply = [before.supply EXCEPT ![d] = @ + last.msg.amount]
           /\ tokens = before.tokens
           /\ frozen = before.frozen
           /\ whitelisted = before.whitelisted

\* a Mint on a whitelist token whose issuer has no limit stored
C17_Witness ==
    \E d \in Denoms :
        /\ IssuerOpOf("Mint", d) /\ Committed
        /\ TokenFeature_whitelist \in before.tokens[d].features
        /\ before.whitelisted[d][last.msg.sender] = 0
        /\ last.msg.amount > 0
        /\ balances[d][last.msg.sender] > before.balances[d][last.msg.sender]
        /\ supply[d] > before.supply[d]

(***************************************************************************)
(* C18.  A committed Burn of A by the issuer of a token with the burn      *)
(* feature takes exactly A off the issuer's balance and off the supply of  *)
(* the denom and changes no other balance, no frozen amount, no            *)
(* whitelisted limit and not the token record.                             *)
(***************************************************************************)
C18_BurnByIssuer ==
    \A d \in Denoms :
        (IssuerOpOf("Burn", d) /\ Committed)
        => /\ last.msg.sender = before.tokens[d].issuer
           /\ TokenFeature_burn \in before.tokens[d].features
           /\ balances = [before.balances EXCEPT
                             ![d][last.msg.sender] = @ - last.msg.amount]
           /\ supply = [before.supply EXCEPT ![d] = @ - last.msg.amount]
           /\ balances[d][last.msg.sender] >= 0
           /\ tokens = before.tokens
           /\ frozen = before.frozen
           /\ whitelisted = before.whitelisted

\* the issuer burned part of its coins while another account held some
C18_Witness ==
    \E d \in Denoms : \E a \in Accounts :
        /\ IssuerOpOf("Burn", d) /\ Committed
        /\ a # last.msg.sender
        /\ balances[d][a] > 0
        /\ supply[d] < before.supply[d]
        /\ supply[d] = balances[d][a] + balances[d][last.msg.sender]

(***************************************************************************)
(* C19.  A committed Issue creates the token record of the denom           *)
(* lower-case subunit + "-" + issuer: its issuer, symbol, subunit,         *)
(* precision, description, features and burn_rate are the message's and    *)
(* its globally_frozen is false.  The issuer is credited initial_amount,   *)
(* so that issuer balance = supply = initial_amount, and the Token query   *)
(* answers that record.                                                    *)
(***************************************************************************)
C19_IssueCreatesToken ==
    (last.msg.type = "Issue" /\ Committed)
    => LET msg == last.msg
           d == ToLower(msg.subunit) \o "-" \o msg.issuer
       IN  /\ d \in Denoms
           /\ before.tokens[d] = NoToken
           /\ tokens[d] = [denom |-> d, issuer |-> msg.issuer, symbol |-> msg.symbol,
                           subunit |-> msg.subunit, precision |-> msg.precision,
                           description |-> msg.description,
                           features |-> msg.features, burn_rate |-> msg.burn_rate,
                           globally_frozen |-> FALSE]
           /\ balances[d][msg.issuer] = msg.initial_amount
           /\ supply[d] = msg.initial_amount
           /\ \A a \in Accounts \ {msg.issuer} : balances[d][a] = 0
           /\ Token(Store, d) = [err |-> NoErr, token |-> tokens[d]]
           /\ Token(before, d).err = ErrTokenNotFound

\* a token with features and a burn rate was issued with a positive amount
C19_Witness ==
    /\ last.msg.type = "Issue" /\ Committed
    /\ last.msg.features # {}
    /\ last.msg.burn_rate > 0
    /\ last.msg.initial_amount > 0
    /\ \E d \in Denoms : /\ Token(Store, d).err = NoErr
                         /\ Token(Store, d).token.subunit = last.msg.subunit
                         /\ supply[d] = last.msg.initial_amount

\* what the sender of the last transfer of `denom` lost, and what the other
\* accounts together gained
Debited(denom) ==
    before.balances[denom][last.msg.from] - balances[denom][last.msg.from]

RECURSIVE SumOver(_, _)
SumOver(f, S) ==
    IF S = {} THEN 0
    ELSE LET a == CHOOSE x \in S : TRUE
         IN  f[a] + SumOver(f, S \ {a})

Credited(denom) ==
    SumOver([a \in Accounts |-> balances[denom][a] - before.balances[denom][a]],
            Accounts \ {last.msg.from})

\* the recipients of the last transfer
Recipients ==
    IF last.msg.type = "Send" THEN {last.msg.to}
    ELSE {last.msg.outputs[i].address : i \in DOMAIN last.msg.outputs}

(***************************************************************************)
(* C20.  Every committed Send and MultiSend debits its sender what it      *)
(* credits the recipients plus what it burns.                              *)
(* As claimed: the burn is zero unless the burn_rate is above 0 and        *)
(* neither the sender nor a recipient is the issuer.                       *)
(***************************************************************************)
C20_NoBurnWithIssuerParty ==
    \A d \in Denoms :
        ((SendOf(d) \/ MultiSendOf(d)) /\ Committed)
        => /\ Debited(d) = Credited(d) + last.burned
           /\ last.burned > 0
                  => /\ before.tokens[d].burn_rate > 0
                     /\ last.msg.from # before.tokens[d].issuer
                     /\ before.tokens[d].issuer \notin Recipients

(***************************************************************************)
(* C20 as amended: every committed Send and MultiSend debits its sender    *)
(* what it credits the recipients plus what it burns, and the supply falls *)
(* by the burn; the burn is zero unless the burn_rate is above 0, the      *)
(* sender is not the issuer and, in a Send, the recipient is not the       *)
(* issuer.  A MultiSend burns on its outputs to the issuer too.            *)
(***************************************************************************)
C20_TransferConservesCoins ==
    \A d \in Denoms :
        ((SendOf(d) \/ MultiSendOf(d)) /\ Committed)
        => /\ Debited(d) = Credited(d) + last.burned
           /\ supply[d] = before.supply[d] - last.burned
           /\ last.burned >= 0
           /\ last.burned > 0
                  => /\ before.tokens[d].burn_rate > 0
                     /\ last.msg.from # before.tokens[d].issuer
                     /\ SendOf(d) => last.msg.to # before.tokens[d].issuer

\* a MultiSend that paid the issuer, burned, and debited outputs plus burn
C20_Witness ==
    \E d \in Denoms :
        /\ MultiSendOf(d) /\ Committed
        /\ before.tokens[d].issuer \in Recipients
        /\ last.burned > 0
        /\ Credited(d) > 0
        /\ Debited(d) = Credited(d) + last.burned

(***************************************************************************)
(* C21.  In every state the bank's supply of a denom is the sum of the     *)
(* balances of all accounts of that denom.  A committed Send or MultiSend  *)
(* lowers the supply by exactly what it burned, which is nothing when no   *)
(* burn applies, and a failed one leaves the supply as it was.             *)
(***************************************************************************)
C21_SupplyIsSumOfBalances ==
    \A d \in Denoms :
        /\ supply[d] = SumOver(balances[d], Accounts)
        /\ (SendOf(d) \/ MultiSendOf(d))
               => IF Committed
                  THEN supply[d] = before.supply[d] - last.burned
                  ELSE supply[d] = before.supply[d] /\ last.burned = 0

\* a Send between holders burned part of the supply; three accounts hold the rest
C21_Witness ==
    \E d \in Denoms :
        /\ SendOf(d) /\ Committed
        /\ last.burned > 0
        /\ supply[d] = before.supply[d] - last.burned
        /\ \A a \in Accounts : balances[d][a] > 0
        /\ supply[d] = SumOver(balances[d], Accounts)

(***************************************************************************)
(* C24  GloballyFreeze and GloballyUnfreeze by the issuer are idempotent:  *)
(* GloballyFreeze of a token that is already globally frozen, and          *)
(* GloballyUnfreeze of a token that is not, succeed without error and      *)
(* leave the token record, the balances, the supply, the frozen amounts    *)
(* and the whitelisted limits as they were; so the state after the second  *)
(* of two equal messages is the state after the first.                     *)
(***************************************************************************)
C24_GlobalFreezeIdempotent ==
    \A d \in Denoms :
        /\ ( /\ IssuerOpOf("GloballyFreeze", d)
             /\ IsIssuer(before.tokens[d], last.msg.sender)
             /\ before.tokens[d].globally_frozen )
               => Committed /\ LedgersUnchanged
        /\ ( /\ IssuerOpOf("GloballyUnfreeze", d)
             /\ IsIssuer(before.tokens[d], last.msg.sender)
             /\ IsFeatureEnabled(before.tokens[d], TokenFeature_freeze)
             /\ ~before.tokens[d].globally_frozen )
               => Committed /\ LedgersUnchanged
        /\ ( /\ last.msg.type \in {"GloballyFreeze", "GloballyUnfreeze"}
             /\ last.msg.denom = d /\ Committed )
               => /\ tokens[d].globally_frozen = (last.msg.type = "GloballyFreeze")
                  /\ GloballyFreeze(Store, last.msg.sender, d).st = Store
                         \/ last.msg.type # "GloballyFreeze"
                  /\ GloballyUnfreeze(Store, last.msg.sender, d).st = Store
                         \/ last.msg.type # "GloballyUnfreeze"

\* the issuer globally froze a token that was already globally frozen
C24_Witness ==
    \E d \in Denoms :
        /\ IssuerOpOf("GloballyFreeze", d)
        /\ IsIssuer(before.tokens[d], last.msg.sender)
        /\ before.tokens[d].globally_frozen
        /\ Committed
        /\ tokens[d].globally_frozen
        /\ \E a \in Accounts : balances[d][a] > 0

(***************************************************************************)
(* C25  No handler changes what was issued: after every message (Issue,    *)
(* Mint, Burn, Freeze, Unfreeze, GloballyFreeze, GloballyUnfreeze,         *)
(* SetWhitelistedLimit, Send, MultiSend) a token that existed before has   *)
(* the features, issuer, symbol, subunit, precision, description, denom    *)
(* and burn_rate it had; globally_frozen is the only field that changes,   *)
(* and only a GloballyFreeze or GloballyUnfreeze changes it.               *)
(***************************************************************************)
C25_RecordWriteOnce ==
    \A d \in Denoms :
        before.tokens[d] # NoToken
            => /\ tokens[d] # NoToken
               /\ [tokens[d] EXCEPT !.globally_frozen = FALSE]
                      = [before.tokens[d] EXCEPT !.globally_frozen = FALSE]
               /\ last.msg.type \notin {"GloballyFreeze", "GloballyUnfreeze"}
                      => tokens[d] = before.tokens[d]

\* the issuer minted: supply and balance grew, the record with its mint
\* feature is the one that was issued
C25_Witness ==
    \E d \in Denoms :
        /\ IssuerOpOf("Mint", d)
        /\ Committed
        /\ supply[d] > before.supply[d]
        /\ tokens[d] = before.tokens[d]
        /\ TokenFeature_mint \in tokens[d].features

C27_RecordIffBalance ==
    \A d \in Denoms :
        (tokens[d] # NoToken) <=> (\E a \in Accounts : balances[d][a] > 0)

(***************************************************************************)
(* C27, as the handlers have it: whenever some account holds a non-zero    *)
(* balance of a denom, the denom has a token record and the supply is not  *)
(* zero; the converse does not hold, a record outlives the last coin: a    *)
(* Burn never removes the record, whatever it leaves of the supply.        *)
(***************************************************************************)
C27_BalanceImpliesRecord ==
    \A d \in Denoms :
        /\ (\E a \in Accounts : balances[d][a] > 0)
               => tokens[d] # NoToken /\ supply[d] > 0
        /\ (IssuerOpOf("Burn", d) /\ Committed)
               => tokens[d] = before.tokens[d]

\* the issuer burned the whole supply: the record is there, no account
\* holds a coin
C27_Witness ==
    \E d \in Denoms :
        /\ IssuerOpOf("Burn", d)
        /\ Committed
        /\ before.supply[d] > 0
        /\ supply[d] = 0
        /\ \A a \in Accounts : balances[d][a] = 0
        /\ tokens[d] # NoToken

\* the last message is a Send or MultiSend, of a token `denom` with the freeze
\* feature, by `addr` whose frozen amount was not below its balance
SendWhileFullyFrozen(denom, addr) ==
    /\ SendOf(denom) \/ MultiSendOf(denom)
    /\ IsFeatureEnabled(before.tokens[denom], TokenFeature_freeze)
    /\ last.msg.from = addr
    /\ before.frozen[denom][addr] >= before.balances[denom][addr]

\* a Freeze by the issuer of a token with the freeze feature commits and adds
\* the amount, whatever the balance of the account
FreezeIgnoresBalance(denom) ==
    ( /\ IssuerOpOf("Freeze", denom)
      /\ IsIssuer(before.tokens[denom], last.msg.sender)
      /\ IsFeatureEnabled(before.tokens[denom], TokenFeature_freeze) )
        => /\ Committed
           /\ frozen[denom][last.msg.account]
                  = before.frozen[denom][last.msg.account] + last.msg.amount

(***************************************************************************)
(* C28  As claimed: a Freeze by the issuer succeeds whatever the balance,  *)
(* and while frozen >= balance every send of a positive amount by the      *)
(* account fails with ErrInsufficientFunds.                                *)
(***************************************************************************)
C28_FullyFrozenSendInsufficientFunds ==
    \A d \in Denoms :
        /\ FreezeIgnoresBalance(d)
        /\ \A a \in Accounts :
               SendWhileFullyFrozen(d, a) => last.err = ErrInsufficientFunds

(***************************************************************************)
(* C28, as the hook has it: a Freeze by the issuer succeeds whatever the   *)
(* balance, also when it makes the frozen amount exceed the balance; while *)
(* frozen >= balance every send of a positive amount by the account fails  *)
(* and moves nothing, with ErrGloballyFrozen if the token is globally      *)
(* frozen and with ErrInsufficientFunds otherwise; coins received do not   *)
(* change that as long as the balance does not exceed the frozen amount.   *)
(***************************************************************************)
C28_FullyFrozenSendFails ==
    \A d \in Denoms :
        /\ FreezeIgnoresBalance(d)
        /\ \A a \in Accounts :
               SendWhileFullyFrozen(d, a)
                   => /\ last.err = IF before.tokens[d].globally_frozen
                                    THEN ErrGloballyFrozen
                                    ELSE ErrInsufficientFunds
                      /\ LedgersUnchanged
                      /\ last.burned = 0

\* an account that holds coins, all of them under a frozen amount greater
\* than its balance, tried to send one and was refused
C28_Witness ==
    \E d \in Denoms, a \in Accounts :
        /\ SendWhileFullyFrozen(d, a)
        /\ before.balances[d][a] > 0
        /\ before.frozen[d][a] > before.balances[d][a]
        /\ ~before.tokens[d].globally_frozen
        /\ last.err = ErrInsufficientFunds
        /\ balances = before.balances

\* the last message is a Send of `amount` of `denom`, a token with a burn
\* rate, from one holder to another, neither of them the issuer
HolderSendWithBurnRate(denom, from, amount) ==
    /\ SendOf(denom)
    /\ last.msg.from = from
    /\ last.msg.amount = amount
    /\ before.tokens[denom].burn_rate > 0
    /\ ~IsIssuer(before.tokens[denom], from)
    /\ ~IsIssuer(before.tokens[denom], last.msg.to)

(***************************************************************************)
(* C29  A Send of amount A between two accounts that are not the issuer,   *)
(* of a token with burn_rate r > 0, commits only if the sender's spendable *)
(* amount (balance minus frozen, not below 0) is at least A + trunc(A*r);  *)
(* a Send that fails burns nothing and changes no balance.  A committed    *)
(* Send burns trunc(A*r) and leaves the sender at least its frozen amount: *)
(* neither the transfer nor the burn is paid from frozen coins.            *)
(***************************************************************************)
C29_BurnChargedOnSpendable ==
    \A d \in Denoms, from \in Accounts, A \in Amounts :
        HolderSendWithBurnRate(d, from, A)
            => LET charge == A + TruncMul(A, before.tokens[d].burn_rate)
               IN  IF Committed
                   THEN /\ SpendableBefore(d, from) >= charge
                        /\ last.burned = charge - A
                        /\ balances[d][from] = before.balances[d][from] - charge
                        /\ balances[d][from] >= frozen[d][from]
                   ELSE /\ last.burned = 0
                        /\ LedgersUnchanged

\* the sender could have spent the amount but not the amount and the burn:
\* the Send was refused and the frozen coin stayed where it was
C29_Witness ==
    \E d \in Denoms, from \in Accounts, A \in Amounts :
        /\ HolderSendWithBurnRate(d, from, A)
        /\ before.frozen[d][from] > 0
        /\ ~before.tokens[d].globally_frozen
        /\ SpendableBefore(d, from) >= A
        /\ SpendableBefore(d, from) < A + TruncMul(A, before.tokens[d].burn_rate)
        /\ before.balances[d][from] >= A + TruncMul(A, before.tokens[d].burn_rate)
        /\ last.err = ErrInsufficientFunds
        /\ balances = before.balances

(***************************************************************************)
(* Transactions.  A transaction carries a list of messages; they are run   *)
(* in the order of the list on a wrapper of the store, each one on what    *)
(* the one before it left.  The wrapper is written back, and the events    *)
(* are kept, only if every message succeeded.                              *)
(***************************************************************************)
\* the handler a message is routed to
Handle(st, msg) ==
    CASE msg.type = "Issue" -> Issue(st, msg)
      [] msg.type = "Freeze" ->
             Freeze(st, msg.sender, msg.account, msg.denom, msg.amount)
      [] msg.type = "GloballyFreeze" -> GloballyFreeze(st, msg.sender, msg.denom)
      [] msg.type = "Send" -> SendCoins(st, msg.from, msg.to, msg.denom, msg.amount)

\* mutant: what the messages before the failed one did is kept
RECURSIVE runMsgs_KeepsEarlier(_, _, _)
runMsgs_KeepsEarlier(start, r, msgs) ==
    IF msgs = <<>> THEN r
    ELSE LET h == Handle(r.st, Head(msgs))
         IN  IF h.err # NoErr THEN [r EXCEPT !.err = h.err]
             ELSE runMsgs_KeepsEarlier(start,
                      [st |-> h.st, err |-> NoErr, burned |-> r.burned + h.burned,
                       events |-> r.events \o h.events],
                      Tail(msgs))

\* `r` is the outcome of the messages run so far, `start` the store the
\* transaction was delivered to
RECURSIVE runMsgs(_, _, _)
runMsgs(start, r, msgs) ==
    IF msgs = <<>> THEN r
    ELSE LET h == Handle(r.st, Head(msgs))
         IN  IF h.err # NoErr THEN Fail(start, h.err)
             ELSE runMsgs(start,
                      [st |-> h.st, err |-> NoErr, burned |-> r.burned + h.burned,
                       events |-> r.events \o h.events],
                      Tail(msgs))

runTx(st, msgs) == runMsgs(st, Done(st, 0), msgs)

\* the tokens the transactions issue: those of IssueKinds that can be frozen
TxIssueKinds == {k \in IssueKinds : TokenFeature_freeze \in k.features}

\* the amounts the messages of a transaction name
TxAmounts == {1, MaxAmount}

\* who pays whom in the Sends of a transaction
TxSends == {<<"issuer", "r1">>, <<"r1", "r2">>, <<"r1", "issuer">>}

TxMsgs ==
    {[type |-> "Issue", issuer |-> "issuer", symbol |-> "ABC", subunit |-> "abc",
      precision |-> 6, description |-> "ABC Description",
      initial_amount |-> k.initial_amount, features |-> k.features,
      burn_rate |-> k.burn_rate] : k \in TxIssueKinds}
    \cup {[type |-> "Freeze", sender |-> "issuer", account |-> "r1", denom |-> d,
           amount |-> a] : d \in Denoms, a \in TxAmounts}
    \cup {[type |-> "GloballyFreeze", sender |-> "issuer", denom |-> d] : d \in Denoms}
    \cup {[type |-> "Send", from |-> p[1], to |-> p[2], denom |-> d, amount |-> a] :
               p \in TxSends, d \in Denoms, a \in TxAmounts}

\* transactions of one message and of two
TxInputs == {<<m>> : m \in TxMsgs} \cup {<<m1, m2>> : m1 \in TxMsgs, m2 \in TxMsgs}

BroadcastTx ==
    \E msgs \in TxInputs :
        LET r == runTx(Store, msgs)
        IN  /\ \A d \in Denoms, a \in Accounts : r.st.frozen[d][a] <= MaxAmount
            /\ Deliver([type |-> "Tx", msgs |-> msgs], r)

NextTx == BroadcastTx

SpecTx == Init /\ [][NextTx]_vars

\* the last step was a transaction of the messages `msgs`
TxOf(msgs) == last.msg.type = "Tx" /\ last.msg.msgs = msgs

(***************************************************************************)
(* C22  A transaction commits all of its messages or none, in the order of *)
(* its list.  It commits exactly if each message succeeds on the store the *)
(* messages before it left; then the store is what the last message left   *)
(* and the events are those of all messages in order.  In particular an    *)
(* Issue followed by a Send, by the issuer, of the denom just issued       *)
(* commits and the recipient holds the amount.  If a message fails, the    *)
(* transaction fails with its error, and token records, balances, supply,  *)
(* frozen amounts and whitelisted limits are those of before the           *)
(* transaction and it has no events.                                       *)
(***************************************************************************)
C22_TransactionAtomic ==
    \A msgs \in TxInputs :
        TxOf(msgs)
            => LET h1 == Handle(before, msgs[1])
                   h2 == IF Len(msgs) = 2 THEN Handle(h1.st, msgs[2]) ELSE Done(h1.st, 0)
               IN  /\ Committed <=> (h1.err = NoErr /\ h2.err = NoErr)
                   /\ Committed
                          => /\ Store = h2.st
                             /\ last.events = h1.events \o h2.events
                             /\ last.burned = h1.burned + h2.burned
                   /\ ~Committed
                          => /\ last.err = IF h1.err # NoErr THEN h1.err ELSE h2.err
                             /\ LedgersUnchanged
                             /\ last.events = <<>>
                             /\ last.burned = 0
                   /\ ( /\ Len(msgs) = 2
                        /\ msgs[1].type = "Issue" /\ msgs[2].type = "Send"
                        /\ before.tokens[BuildDenom(msgs[1].subunit, msgs[1].issuer)]
                               = NoToken
                        /\ msgs[2].denom = BuildDenom(msgs[1].subunit, msgs[1].issuer)
                        /\ msgs[2].from = msgs[1].issuer
                        /\ msgs[2].amount <= msgs[1].initial_amount )
                          => /\ Committed
                             /\ balances[msgs[2].denom][msgs[2].to] = msgs[2].amount

\* an Issue and a Send of the new denom to a holder committed in one
\* transaction: the token is there, the holder has the coins, the event of
\* the Issue is kept
C22_Witness ==
    \E msgs \in TxInputs :
        /\ TxOf(msgs) /\ Len(msgs) = 2
        /\ msgs[1].type = "Issue" /\ msgs[2].type = "Send"
        /\ before.tokens[msgs[2].denom] = NoToken
        /\ Committed
        /\ tokens[msgs[2].denom] # NoToken
        /\ balances[msgs[2].denom][msgs[2].to] = msgs[2].amount
        /\ Len(last.events) = 1

\* a transaction whose first message succeeded and whose second failed
C22_SecondMessageFailed ==
    \E msgs \in TxInputs :
        /\ TxOf(msgs) /\ Len(msgs) = 2
        /\ Handle(before, msgs[1]).err = NoErr
        /\ Handle(before, msgs[1]).st # before
        /\ ~Committed

(***************************************************************************)
(* Genesis.  InitGenesis writes the token records, the frozen balances and *)
(* the whitelisted balances of a genesis state into an empty store;        *)
(* ExportGenesis reads them back by iterating the store in key order.      *)
(***************************************************************************)
\* the denoms of the genesis tokens, in the order of their store keys
GenesisSubunits == <<"abc0", "abc1">>

GenesisDenomOrder ==
    [i \in DOMAIN GenesisSubunits |-> BuildDenom(GenesisSubunits[i], "issuer")]

GenesisDenoms == {GenesisDenomOrder[i] : i \in DOMAIN GenesisDenomOrder}

\* the accounts in the order of their store keys
AddressOrder == <<"issuer", "r1", "r2">>

GenesisAddresses == {"r1", "r2"}

GenesisAmounts == {0, 1}

\* the i-th token definition of the genesis state
GenesisToken(i, globally_frozen) ==
    [denom |-> GenesisDenomOrder[i], issuer |-> "issuer",
     symbol |-> IF i = 1 THEN "ABC0" ELSE "ABC1",
     subunit |-> GenesisSubunits[i], precision |-> 6, description |-> "",
     features |-> {TokenFeature_freeze, TokenFeature_whitelist},
     burn_rate |-> i - 1, globally_frozen |-> globally_frozen]

\* all denoms of the model, sorted as sdk.Coins sorts them
DenomOrder == <<BuildDenom("abc", "issuer")>> \o GenesisDenomOrder

\* sdk.NewCoins: the coins of `amounts` in denom order, zero amounts left out
NewCoins(amounts) ==
    LET Positive(d) == d \in DOMAIN amounts /\ amounts[d] > 0
        ds == SelectSeq(DenomOrder, Positive)
    IN  [i \in DOMAIN ds |-> NewCoin(ds[i], amounts[ds[i]])]

\* the lists of at most two elements of S, in every order
ListsOf(S) ==
    {<<>>} \cup {<<x>> : x \in S} \cup {<<x, y>> : x \in S, y \in S}

TokenLists ==
    {l \in ListsOf({GenesisToken(i, f) : i \in DOMAIN GenesisDenomOrder, f \in BOOLEAN}) :
        Len(l) = 2 => l[1].denom # l[2].denom}

\* the balances lists of a genesis state with the token definitions `ts`:
\* one entry per address, coins of the genesis tokens, none of them empty
BalanceLists(ts) ==
    LET ds == {ts[i].denom : i \in DOMAIN ts}
        coins == {NewCoins(f) : f \in [ds -> GenesisAmounts]} \ {<<>>}
    IN  {l \in ListsOf({[address |-> a, coins |-> c] : a \in GenesisAddresses, c \in coins}) :
            Len(l) = 2 => l[1].address # l[2].address}

\* sets, one after the other, the records of `ts`
RECURSIVE SetTokens(_, _)
SetTokens(st, ts) ==
    IF ts = <<>> THEN st
    ELSE SetTokens([st EXCEPT !.tokens[Head(ts).denom] = Head(ts)], Tail(ts))

\* sets the amounts of `coins` for `addr` in the ledger `ledger` of the store
RECURSIVE SetLedgerBalances(_, _, _, _)
SetLedgerBalances(st, ledger, addr, coins) ==
    IF coins = <<>> THEN st
    ELSE SetLedgerBalances([st EXCEPT ![ledger][Head(coins).denom][addr] = Head(coins).amount],
                           ledger, addr, Tail(coins))

RECURSIVE SetBalancesList(_, _, _)
SetBalancesList(st, ledger, bs) ==
    IF bs = <<>> THEN st
    ELSE SetBalancesList(SetLedgerBalances(st, ledger, Head(bs).address, Head(bs).coins),
                         ledger, Tail(bs))

InitGenesis(st, genState) ==
    SetBalancesList(
        SetBalancesList(SetTokens(st, genState.tokens),
                        "frozen", genState.frozen_balances),
        "whitelisted", genState.whitelisted_balances)

\* mutant: the ledger keeps the entries whose amount is zero
LedgerBalances_ZeroKept(ledger, addr) ==
    LET Stored(d) == d \in DOMAIN ledger
        ds == SelectSeq(DenomOrder, Stored)
    IN  [i \in DOMAIN ds |-> NewCoin(ds[i], ledger[ds[i]][addr])]

\* the non-zero amounts of `addr` in a ledger, in denom order
LedgerBalances(ledger, addr) ==
    NewCoins([d \in DOMAIN ledger |-> ledger[d][addr]])

GetFrozenBalances(st, addr) == LedgerBalances(st.frozen, addr)

GetWhitelistedBalances(st, addr) == LedgerBalances(st.whitelisted, addr)

\* the accounts with an amount in the ledger, each with its coins
ExportBalances(ledger) ==
    LET Held(a) == LedgerBalances(ledger, a) # <<>>
        as == SelectSeq(AddressOrder, Held)
    IN  [i \in DOMAIN as |-> [address |-> as[i], coins |-> LedgerBalances(ledger, as[i])]]

\* the records of the store, in denom order
GetTokens(st) ==
    LET Stored(d) == TokenExists(st, d)
        ds == SelectSeq(GenesisDenomOrder, Stored)
    IN  [i \in DOMAIN ds |-> GetToken(st, ds[i])]

\* mutant: the tokens are exported as active ones
ExportGenesis_FlagCleared(st) ==
    [tokens |-> [i \in DOMAIN GetTokens(st) |->
                     [GetTokens(st)[i] EXCEPT !.globally_frozen = FALSE]],
     frozen_balances |-> ExportBalances(st.frozen),
     whitelisted_balances |-> ExportBalances(st.whitelisted)]

ExportGenesis(st) ==
    [tokens |-> GetTokens(st),
     frozen_balances |-> ExportBalances(st.frozen),
     whitelisted_balances |-> ExportBalances(st.whitelisted)]

\* the store of a chain that has no token yet
InitEmpty ==
    /\ tokens = [d \in GenesisDenoms |-> NoToken]
    /\ balances = [d \in GenesisDenoms |-> [a \in Accounts |-> 0]]
    /\ supply = [d \in GenesisDenoms |-> 0]
    /\ frozen = [d \in GenesisDenoms |-> [a \in Accounts |-> 0]]
    /\ whitelisted = [d \in GenesisDenoms |-> [a \in Accounts |-> 0]]
    /\ last = [msg |-> [type |-> "none"], err |-> NoErr, burned |-> 0,
               events |-> <<>>]
    /\ before = Store
    /\ NewFaucet
    /\ cmd = NoCmd

\* the genesis state is imported into the empty store
ImportGenesis ==
    /\ last.msg.type = "none"
    /\ \E ts \in TokenLists :
           \E fb \in BalanceLists(ts), wb \in BalanceLists(ts) :
               LET genState == [tokens |-> ts, frozen_balances |-> fb,
                                whitelisted_balances |-> wb]
               IN  Deliver([type |-> "InitGenesis", genState |-> genState],
                           Done(InitGenesis(Store, genState), 0))

\* the store is exported; `last` keeps what was imported next to what was
\* exported
ExportGenesisStep ==
    /\ last.msg.type = "InitGenesis"
    /\ last' = [msg |-> [type |-> "ExportGenesis", genState |-> last.msg.genState],
                err |-> NoErr, burned |-> 0, events |-> <<>>,
                exported |-> ExportGenesis(Store)]
    /\ before' = Store
    /\ UNCHANGED <<tokens, balances, supply, frozen, whitelisted>>
    /\ UNCHANGED <<faucetVars, cliVars>>

NextGenesis ==
    \/ ImportGenesis
    \/ ExportGenesisStep

SpecGenesis == InitEmpty /\ [][NextGenesis]_vars

\* the multiset of the elements of a list
SeqToBag(s) ==
    [x \in {s[i] : i \in DOMAIN s} |-> Cardinality({i \in DOMAIN s : s[i] = x})]

(***************************************************************************)
(* C23  After the import of a genesis state, GetToken returns every token  *)
(* definition of the state, globally_frozen included, and                  *)
(* GetFrozenBalances and GetWhitelistedBalances return for every address   *)
(* of the state its coins, and no coins for the other accounts; the        *)
(* export that follows yields the same multisets of tokens, of frozen      *)
(* balances and of whitelisted balances as were imported.                  *)
(***************************************************************************)
C23_GenesisRoundTrip ==
    /\ last.msg.type = "InitGenesis"
           => LET g == last.msg.genState
              IN  /\ \A i \in DOMAIN g.tokens :
                         /\ TokenExists(Store, g.tokens[i].denom)
                         /\ GetToken(Store, g.tokens[i].denom) = g.tokens[i]
                  /\ \A i \in DOMAIN g.frozen_balances :
                         GetFrozenBalances(Store, g.frozen_balances[i].address)
                             = g.frozen_balances[i].coins
                  /\ \A i \in DOMAIN g.whitelisted_balances :
                         GetWhitelistedBalances(Store, g.whitelisted_balances[i].address)
                             = g.whitelisted_balances[i].coins
                  /\ \A a \in Accounts :
                         /\ (\A i \in DOMAIN g.frozen_balances :
                                 g.frozen_balances[i].address # a)
                                => GetFrozenBalances(Store, a) = <<>>
                         /\ (\A i \in DOMAIN g.whitelisted_balances :
                                 g.whitelisted_balances[i].address # a)
                                => GetWhitelistedBalances(Store, a) = <<>>
    /\ last.msg.type = "ExportGenesis"
           => LET g == last.msg.genState
              IN  /\ SeqToBag(last.exported.tokens) = SeqToBag(g.tokens)
                  /\ SeqToBag(last.exported.frozen_balances)
                         = SeqToBag(g.frozen_balances)
                  /\ SeqToBag(last.exported.whitelisted_balances)
                         = SeqToBag(g.whitelisted_balances)

\* two tokens, one of them globally frozen, and frozen and whitelisted
\* balances of two addresses were imported in another order than the store
\* keeps them, and exported
C23_Witness ==
    /\ last.msg.type = "ExportGenesis"
    /\ Len(last.msg.genState.tokens) = 2
    /\ \E i \in {1, 2} : last.msg.genState.tokens[i].globally_frozen
    /\ \E i \in {1, 2} : ~last.msg.genState.tokens[i].globally_frozen
    /\ Len(last.msg.genState.frozen_balances) = 2
    /\ Len(last.msg.genState.whitelisted_balances) = 2
    /\ last.msg.genState.frozen_balances # last.msg.genState.whitelisted_balances
    /\ last.exported.tokens # last.msg.genState.tokens
    /\ last.exported.frozen_balances # last.msg.genState.frozen_balances
    /\ SeqToBag(last.exported.tokens) = SeqToBag(last.msg.genState.tokens)

(***************************************************************************)
(* A token with both the freeze and the whitelist feature, as the genesis  *)
(* test defines its tokens: its sends meet all three policies of the hook. *)
(***************************************************************************)
MsgIssueFreezeWhitelist ==
    \E issuer \in Issuers :
        LET msg == [type |-> "Issue", issuer |-> issuer, symbol |-> "ABC",
                    subunit |-> "abc", precision |-> 6, description |-> "ABC Description",
                    initial_amount |-> 3, burn_rate |-> 0,
                    features |-> {TokenFeature_freeze, TokenFeature_whitelist}]
        IN  Deliver(msg, Issue(Store, msg))

\* the message of the step is the issuer's and names a holder
ByIssuerOnHolder ==
    /\ last'.msg.sender \in Issuers
    /\ last'.msg.account \notin Issuers

NextPolicies ==
    \/ MsgIssueFreezeWhitelist
    \/ MsgFreeze /\ ByIssuerOnHolder
    \/ MsgGloballyFreeze
    \/ MsgGloballyUnfreeze
    \/ MsgSetWhitelistedLimit /\ ByIssuerOnHolder
    \/ MsgSend

SpecPolicies == Init /\ [][NextPolicies]_vars

\* the last message is a Send of `denom` by an account that is not the issuer
HolderSendOf(denom) ==
    /\ SendOf(denom)
    /\ ~IsIssuer(before.tokens[denom], last.msg.from)

\* the Send asks for more than the sender's balance less its frozen amount
BreaksFrozenBalance(denom) ==
    last.msg.amount > SpendableBefore(denom, last.msg.from)

\* the Send would lift the recipient, not the issuer, above its whitelisted limit
BreaksWhitelistedLimit(denom) ==
    /\ IsFeatureEnabled(before.tokens[denom], TokenFeature_whitelist)
    /\ ~IsIssuer(before.tokens[denom], last.msg.to)
    /\ before.balances[denom][last.msg.to] + last.msg.amount
           > before.whitelisted[denom][last.msg.to]

(***************************************************************************)
(* C30  The hook looks at the global freeze before its other policies: a   *)
(* Send by an account that is not the issuer, of a globally frozen token,  *)
(* fails with ErrGloballyFrozen also when it asks for more than the        *)
(* sender's balance less its frozen amount, or would lift the recipient    *)
(* above its whitelisted limit, or both; ErrInsufficientFunds and          *)
(* ErrWhitelistedLimitExceeded are returned only for a token that is not   *)
(* globally frozen.                                                        *)
(***************************************************************************)
C30_GlobalFreezeCheckedFirst ==
    \A d \in Denoms :
        HolderSendOf(d)
            => /\ before.tokens[d].globally_frozen
                      => last.err = ErrGloballyFrozen /\ LedgersUnchanged
               /\ last.err \in {ErrInsufficientFunds, ErrWhitelistedLimitExceeded}
                      => ~before.tokens[d].globally_frozen
               /\ (~before.tokens[d].globally_frozen
                       /\ (BreaksFrozenBalance(d) \/ BreaksWhitelistedLimit(d)))
                      => last.err \in {ErrInsufficientFunds, ErrWhitelistedLimitExceeded}

\* a holder with coins, some of them frozen, sent more than it may spend to an
\* account whose whitelisted limit the amount exceeds, while the token was
\* globally frozen
C30_Witness ==
    \E d \in Denoms :
        /\ HolderSendOf(d)
        /\ before.tokens[d].globally_frozen
        /\ before.frozen[d][last.msg.from] > 0
        /\ before.balances[d][last.msg.from] >= last.msg.amount
        /\ BreaksFrozenBalance(d)
        /\ BreaksWhitelistedLimit(d)
        /\ last.err = ErrGloballyFrozen

(***************************************************************************)
(* C31  A bank Send or MultiSend, committed or failed, changes no frozen   *)
(* amount, no whitelisted limit and no token record, and a failed one      *)
(* changes no balance and no supply either.  A frozen amount changes only  *)
(* by a committed Freeze or Unfreeze and a whitelisted limit only by a     *)
(* committed SetWhitelistedLimit, each of them of the denom and account    *)
(* the message names.                                                      *)
(***************************************************************************)
C31_SendOnlyReadsModuleState ==
    /\ last.msg.type \in {"Send", "MultiSend"}
           => /\ frozen = before.frozen
              /\ whitelisted = before.whitelisted
              /\ tokens = before.tokens
              /\ ~Committed => (balances = before.balances /\ supply = before.supply)
    /\ \A d \in Denoms, a \in Accounts :
           /\ frozen[d][a] # before.frozen[d][a]
                  => /\ last.msg.type \in {"Freeze", "Unfreeze"}
                     /\ Committed
                     /\ last.msg.denom = d /\ last.msg.account = a
           /\ whitelisted[d][a] # before.whitelisted[d][a]
                  => /\ last.msg.type = "SetWhitelistedLimit"
                     /\ Committed
                     /\ last.msg.denom = d /\ last.msg.account = a

\* a holder with a frozen amount and a whitelisted recipient: the Send moved
\* coins and both ledgers are as they were
C31_Witness ==
    \E d \in Denoms :
        /\ SendOf(d) /\ Committed
        /\ balances # before.balances
        /\ \E a \in Accounts : frozen[d][a] > 0
        /\ frozen = before.frozen
        /\ whitelisted = before.whitelisted

\* the issuer of `denom` can take the token to globally frozen and to active
\* with one message from the present state
BothStatesWithinReach(denom) ==
    LET issuer == tokens[denom].issuer
        f == GloballyFreeze(Store, issuer, denom)
        u == GloballyUnfreeze(Store, issuer, denom)
    IN  /\ f.err = NoErr /\ f.st.tokens[denom].globally_frozen
        /\ u.err = NoErr /\ ~u.st.tokens[denom].globally_frozen

\* globally_frozen of `denom` is false after Issue and changes only by a
\* committed GloballyFreeze, to true, or GloballyUnfreeze, to false
FlagSetOnlyByGlobalFreeze(denom) ==
    /\ (last.msg.type = "Issue" /\ Committed /\ before.tokens[denom] = NoToken
            /\ tokens[denom] # NoToken)
           => ~tokens[denom].globally_frozen
    /\ (before.tokens[denom] # NoToken
            /\ tokens[denom].globally_frozen # before.tokens[denom].globally_frozen)
           => /\ Committed
              /\ last.msg.denom = denom
              /\ last.msg.type = IF tokens[denom].globally_frozen
                                 THEN "GloballyFreeze" ELSE "GloballyUnfreeze"

(***************************************************************************)
(* C32  As claimed: per denom globally_frozen is false after Issue,        *)
(* changes only by a successful GloballyFreeze or GloballyUnfreeze, and    *)
(* from every reachable state the issuer can reach both Active and         *)
(* GloballyFrozen.                                                         *)
(***************************************************************************)
C32_NoTerminalStateForAnyToken ==
    \A d \in Denoms :
        /\ FlagSetOnlyByGlobalFreeze(d)
        /\ tokens[d] # NoToken => BothStatesWithinReach(d)

(***************************************************************************)
(* C32, as the handlers have it: per denom globally_frozen is false after  *)
(* Issue and changes only by a successful GloballyFreeze (to true) or      *)
(* GloballyUnfreeze (to false).  For a token issued with the freeze        *)
(* feature the issuer can reach both Active and GloballyFrozen from every  *)
(* reachable state; a token without the feature is Active for ever, its    *)
(* GloballyFreeze fails with ErrFeatureNotActive.                          *)
(***************************************************************************)
C32_NoTerminalStateWithFreezeFeature ==
    \A d \in Denoms :
        /\ FlagSetOnlyByGlobalFreeze(d)
        /\ tokens[d] # NoToken
               => IF IsFeatureEnabled(tokens[d], TokenFeature_freeze)
                  THEN BothStatesWithinReach(d)
                  ELSE /\ ~tokens[d].globally_frozen
                       /\ GloballyFreeze(Store, tokens[d].issuer, d).err
                              = ErrFeatureNotActive

\* a token that was globally frozen is active again and can be frozen again
C32_Witness ==
    \E d \in Denoms :
        /\ IssuerOpOf("GloballyUnfreeze", d) /\ Committed
        /\ before.tokens[d].globally_frozen
        /\ ~tokens[d].globally_frozen
        /\ BothStatesWithinReach(d)

\* the per-account list `coins` and the single-denom answer `single` of a
\* ledger show the amount of `denom`: a zero amount is not listed and is
\* answered with a zero coin, any other is listed once with its amount
ZeroIsAbsent(amount, denom, coins, single) ==
    /\ single = [err |-> NoErr, balance |-> NewCoin(denom, amount)]
    /\ \A i \in DOMAIN coins : coins[i].amount > 0
    /\ amount = 0 => \A i \in DOMAIN coins : coins[i].denom # denom
    /\ amount > 0 => Cardinality({i \in DOMAIN coins : coins[i] = NewCoin(denom, amount)}) = 1

C33_LimitSetToZero ==
    \E d \in Denoms :
        /\ IssuerOpOf("SetWhitelistedLimit", d) /\ Committed
        /\ before.whitelisted[d][last.msg.account] > 0
        /\ last.msg.amount = 0
        /\ GetWhitelistedBalances(Store, last.msg.account) = <<>>

(***************************************************************************)
(* Sends of the chain's native coin, which the module has no record of,    *)
(* next to a token of the module with frozen amounts, whitelisted limits   *)
(* and a global freeze.                                                    *)
(***************************************************************************)
NativeDenom == "ucore"

BankDenoms == Denoms \cup {NativeDenom}

\* the accounts hold native coins, the module has no token yet
InitFunded ==
    /\ tokens = [d \in BankDenoms |-> NoToken]
    /\ balances = [d \in BankDenoms |->
                      [a \in Accounts |-> IF d = NativeDenom /\ a \in Issuers
                                          THEN MaxAmount ELSE 0]]
    /\ supply = [d \in BankDenoms |-> IF d = NativeDenom THEN MaxAmount ELSE 0]
    /\ frozen = [d \in BankDenoms |-> [a \in Accounts |-> 0]]
    /\ whitelisted = [d \in BankDenoms |-> [a \in Accounts |-> 0]]
    /\ last = [msg |-> [type |-> "none"], err |-> NoErr, burned |-> 0,
               events |-> <<>>]
    /\ before = Store
    /\ NewFaucet
    /\ cmd = NoCmd

MsgSendNative ==
    \E from \in Accounts, to \in Accounts, amount \in Amounts :
        /\ from # to
        /\ Deliver([type |-> "Send", from |-> from, to |-> to, denom |-> NativeDenom,
                    amount |-> amount],
                   SendCoins(Store, from, to, NativeDenom, amount))

NextNative ==
    \/ MsgIssueFreezeWhitelist
    \/ MsgFreeze /\ ByIssuerOnHolder
    \/ MsgSetWhitelistedLimit /\ ByIssuerOnHolder
    \/ MsgGloballyFreeze
    \/ MsgSendNative

SpecNative == InitFunded /\ [][NextNative]_vars

\* the last message is a Send of `denom`, which has no record in the module
UnmanagedSendOf(denom) ==
    /\ last.msg.type = "Send"
    /\ last.msg.denom = denom
    /\ before.tokens[denom] = NoToken

(***************************************************************************)
(* C34  A bank Send of a denom without a token record passes the hook      *)
(* unchanged: it commits whenever the sender holds the amount and then     *)
(* moves exactly the amount, it fails only for want of balance, never with *)
(* an error of the module; it burns nothing and changes no token record,   *)
(* frozen amount or whitelisted limit, whatever the module holds for other *)
(* denoms.                                                                 *)
(***************************************************************************)
C34_UnmanagedDenomPassesHook ==
    \A d \in BankDenoms :
        UnmanagedSendOf(d)
            => /\ last.burned = 0
               /\ tokens = before.tokens
               /\ frozen = before.frozen
               /\ whitelisted = before.whitelisted
               /\ supply = before.supply
               /\ IF before.balances[d][last.msg.from] >= last.msg.amount
                  THEN /\ Committed
                       /\ balances = [before.balances EXCEPT
                                         ![d][last.msg.from] = @ - last.msg.amount,
                                         ![d][last.msg.to] = @ + last.msg.amount]
                  ELSE /\ last.err = ErrInsufficientFunds
                       /\ balances = before.balances

\* native coins went to an account that has a frozen amount and no
\* sufficient whitelisted limit on a globally frozen token of the module
C34_Witness ==
    \E d \in Denoms :
        /\ UnmanagedSendOf(NativeDenom) /\ Committed
        /\ tokens[d] # NoToken /\ tokens[d].globally_frozen
        /\ frozen[d][last.msg.to] > 0
        /\ whitelisted[d][last.msg.to] < last.msg.amount
        /\ balances[NativeDenom][last.msg.to]
               = before.balances[NativeDenom][last.msg.to] + last.msg.amount

(***************************************************************************)
(* The faucet of the integration tests.  Concurrent FundAccounts calls     *)
(* share one funding wallet: the call that takes the token of muCh leads,  *)
(* collects the requests the other calls send on queue, broadcasts one     *)
(* transaction for all of them and hands its outcome to every request.     *)
(* queue is unbuffered: a send on it and the leader's receive are one      *)
(* step.  A select takes any of its ready cases.                           *)
(***************************************************************************)
\* requests of one transaction (20 in the source, scaled down)
requestsPerTx == 3

maxAccountsPerRequest == 20

\* how many accounts a call asks to fund
RequestSizes == {1, 2, maxAccountsPerRequest + 1}

\* what tx.BroadcastTx returns: nil or an error
BroadcastResults == {"nil", "ErrBroadcast"}

\* the elements of a list
Range(s) == {s[i] : i \in DOMAIN s}

\* mutant: one message for each request
RECURSIVE collectMessages_OnePerRequest(_)
collectMessages_OnePerRequest(reqs) ==
    IF reqs = <<>> THEN <<>>
    ELSE <<[type |-> "Send", from |-> "fundingWallet",
            to |-> accountsToFund[Head(reqs)][1]]>>
         \o collectMessages_OnePerRequest(Tail(reqs))

\* one bank MsgSend for every account of every request, in the order of the
\* requests and of their accounts
RECURSIVE collectMessages(_)
collectMessages(reqs) ==
    IF reqs = <<>> THEN <<>>
    ELSE [i \in DOMAIN accountsToFund[Head(reqs)] |->
             [type |-> "Send", from |-> "fundingWallet",
              to |-> accountsToFund[Head(reqs)][i]]]
         \o collectMessages(Tail(reqs))

\* FundAccounts is called: too many accounts are refused at once
FundAccounts(c) ==
    /\ pc[c] = "start"
    /\ \E n \in RequestSizes :
           /\ accountsToFund' = [accountsToFund EXCEPT ![c] = [i \in 1..n |-> <<c, i>>]]
           /\ IF n > maxAccountsPerRequest
              THEN /\ pc' = [pc EXCEPT ![c] = "done"]
                   /\ retErr' = [retErr EXCEPT ![c] = "ErrTooManyAccounts"]
              ELSE /\ pc' = [pc EXCEPT ![c] = "select"]
                   /\ UNCHANGED retErr
    /\ UNCHANGED <<muCh, ctxDone, collected, requests, FundedCh, sent, broadcasts>>
    /\ UNCHANGED <<storeVars, cliVars>>

\* the context of a running call is cancelled
Cancel(c) ==
    /\ pc[c] # "done"
    /\ ~ctxDone[c]
    /\ ctxDone' = [ctxDone EXCEPT ![c] = TRUE]
    /\ UNCHANGED <<muCh, pc, accountsToFund, collected, requests, FundedCh, retErr,
                   sent, broadcasts>>
    /\ UNCHANGED <<storeVars, cliVars>>

\* first select, case <-ctx.Done()
Select_ctxDone(c) ==
    /\ pc[c] = "select"
    /\ ctxDone[c]
    /\ pc' = [pc EXCEPT ![c] = "done"]
    /\ retErr' = [retErr EXCEPT ![c] = "ctx.Err"]
    /\ UNCHANGED <<muCh, ctxDone, accountsToFund, collected, requests, FundedCh,
                   sent, broadcasts>>
    /\ UNCHANGED <<storeVars, cliVars>>

\* first select, case f.queue <- req, met by the receive of a leader that is
\* collecting: the request joins the leader's batch
Select_queue(c) ==
    /\ pc[c] = "select"
    /\ \E l \in Callers :
           /\ pc[l] = "collect"
           /\ Len(collected[l]) < requestsPerTx
           /\ collected' = [collected EXCEPT ![l] = Append(@, c)]
    /\ pc' = [pc EXCEPT ![c] = "wait"]
    /\ UNCHANGED <<muCh, ctxDone, accountsToFund, requests, FundedCh, retErr, sent,
                   broadcasts>>
    /\ UNCHANGED <<storeVars, cliVars>>

\* mutant: the lock is looked at but its token is left in the channel
Select_muCh_TokenKept(c) ==
    /\ pc[c] = "select"
    /\ muCh > 0
    /\ pc' = [pc EXCEPT ![c] = "collect"]
    /\ collected' = [collected EXCEPT ![c] = <<c>>]
    /\ UNCHANGED <<muCh, ctxDone, accountsToFund, requests, FundedCh, retErr, sent,
                   broadcasts>>
    /\ UNCHANGED <<storeVars, cliVars>>

\* first select, case <-f.muCh: the call becomes the leader and puts its own
\* request first into the batch
Select_muCh(c) ==
    /\ pc[c] = "select"
    /\ muCh > 0
    /\ muCh' = muCh - 1
    /\ pc' = [pc EXCEPT ![c] = "collect"]
    /\ collected' = [collected EXCEPT ![c] = <<c>>]
    /\ UNCHANGED <<ctxDone, accountsToFund, requests, FundedCh, retErr, sent,
                   broadcasts>>
    /\ UNCHANGED <<storeVars, cliVars>>

\* a participant waiting for its result, case <-ctx.Done()
Wait_ctxDone(c) ==
    /\ pc[c] = "wait"
    /\ ctxDone[c]
    /\ pc' = [pc EXCEPT ![c] = "done"]
    /\ retErr' = [retErr EXCEPT ![c] = "ctx.Err"]
    /\ UNCHANGED <<muCh, ctxDone, accountsToFund, collected, requests, FundedCh,
                   sent, broadcasts>>
    /\ UNCHANGED <<storeVars, cliVars>>

\* a participant waiting for its result, case err := <-req.FundedCh
Wait_FundedCh(c) ==
    /\ pc[c] = "wait"
    /\ FundedCh[c] # <<>>
    /\ pc' = [pc EXCEPT ![c] = "done"]
    /\ retErr' = [retErr EXCEPT ![c] = Head(FundedCh[c])]
    /\ FundedCh' = [FundedCh EXCEPT ![c] = Tail(@)]
    /\ UNCHANGED <<muCh, ctxDone, accountsToFund, collected, requests, sent,
                   broadcasts>>
    /\ UNCHANGED <<storeVars, cliVars>>

\* collectRequests, case <-ctx.Done(): it returns nil and the error, and
\* FundAccounts returns the error before its deferred function is set up
collectRequests_ctxDone(l) ==
    /\ pc[l] = "collect"
    /\ Len(collected[l]) < requestsPerTx
    /\ ctxDone[l]
    /\ pc' = [pc EXCEPT ![l] = "done"]
    /\ retErr' = [retErr EXCEPT ![l] = "ctx.Err"]
    /\ UNCHANGED <<muCh, ctxDone, accountsToFund, collected, requests, FundedCh,
                   sent, broadcasts>>
    /\ UNCHANGED <<storeVars, cliVars>>

\* collectRequests, case <-timeout: the batch is closed as it is
collectRequests_timeout(l) ==
    /\ pc[l] = "collect"
    /\ Len(collected[l]) < requestsPerTx
    /\ requests' = [requests EXCEPT ![l] = collected[l]]
    /\ pc' = [pc EXCEPT ![l] = "broadcast"]
    /\ UNCHANGED <<muCh, ctxDone, accountsToFund, collected, FundedCh, retErr, sent,
                   broadcasts>>
    /\ UNCHANGED <<storeVars, cliVars>>

\* collectRequests, the loop ends because the batch is full
collectRequests_full(l) ==
    /\ pc[l] = "collect"
    /\ Len(collected[l]) >= requestsPerTx
    /\ requests' = [requests EXCEPT ![l] = collected[l]]
    /\ pc' = [pc EXCEPT ![l] = "broadcast"]
    /\ UNCHANGED <<muCh, ctxDone, accountsToFund, collected, FundedCh, retErr, sent,
                   broadcasts>>
    /\ UNCHANGED <<storeVars, cliVars>>

\* the leader broadcasts the messages of the batch and awaits the outcome,
\* which is what FundAccounts is about to return
broadcastTx(l) ==
    /\ pc[l] = "broadcast"
    /\ \E err \in BroadcastResults :
           retErr' = [retErr EXCEPT ![l] = err]
    /\ broadcasts' = Append(broadcasts, collectMessages(requests[l]))
    /\ pc' = [pc EXCEPT ![l] = "unlock"]
    /\ UNCHANGED <<muCh, ctxDone, accountsToFund, collected, requests, FundedCh, sent>>
    /\ UNCHANGED <<storeVars, cliVars>>

\* deferred: f.muCh <- struct{}{}
Defer_unlock(l) ==
    /\ pc[l] = "unlock"
    /\ muCh < 1
    /\ muCh' = muCh + 1
    /\ pc' = [pc EXCEPT ![l] = "deliver"]
    /\ UNCHANGED <<ctxDone, accountsToFund, collected, requests, FundedCh, retErr,
                   sent, broadcasts>>
    /\ UNCHANGED <<storeVars, cliVars>>

\* deferred: req.FundedCh <- retErr, for the next request of the batch
Defer_send(l) ==
    /\ pc[l] = "deliver"
    /\ sent[l] < Len(requests[l])
    /\ Len(FundedCh[requests[l][sent[l] + 1]]) < 1
    /\ FundedCh' = [FundedCh EXCEPT ![requests[l][sent[l] + 1]] = Append(@, retErr[l])]
    /\ sent' = [sent EXCEPT ![l] = @ + 1]
    /\ UNCHANGED <<muCh, pc, ctxDone, accountsToFund, collected, requests, retErr,
                   broadcasts>>
    /\ UNCHANGED <<storeVars, cliVars>>

\* the deferred function is through: the leader's call returns
Defer_return(l) ==
    /\ pc[l] = "deliver"
    /\ sent[l] = Len(requests[l])
    /\ pc' = [pc EXCEPT ![l] = "done"]
    /\ UNCHANGED <<muCh, ctxDone, accountsToFund, collected, requests, FundedCh,
                   retErr, sent, broadcasts>>
    /\ UNCHANGED <<storeVars, cliVars>>

NextFaucet ==
    \E c \in Callers :
        \/ FundAccounts(c)
        \/ Cancel(c)
        \/ Select_ctxDone(c)
        \/ Select_queue(c)
        \/ Select_muCh(c)
        \/ Wait_ctxDone(c)
        \/ Wait_FundedCh(c)
        \/ collectRequests_ctxDone(c)
        \/ collectRequests_timeout(c)
        \/ collectRequests_full(c)
        \/ broadcastTx(c)
        \/ Defer_unlock(c)
        \/ Defer_send(c)
        \/ Defer_return(c)

SpecFaucet == Init /\ [][NextFaucet]_vars

\* the call has taken the token of muCh and not put it back
HoldsToken(c) ==
    \/ pc[c] \in {"collect", "broadcast", "unlock"}
    \/ pc[c] = "done" /\ collected[c] # <<>> /\ requests[c] = <<>>

\* the call is a leader at work: collecting, broadcasting or awaiting
LeaderRunning(c) == pc[c] \in {"collect", "broadcast", "unlock"}

(***************************************************************************)
(* C35  With any number of concurrent FundAccounts calls at most one call  *)
(* has taken the token of muCh and not put it back, the token is either in *)
(* the channel or with that call, and so at most one call is collecting    *)
(* requests, broadcasting or awaiting a transaction at a time.             *)
(***************************************************************************)
C35_OneLeaderAtATime ==
    /\ muCh \in {0, 1}
    /\ muCh + Cardinality({c \in Callers : HoldsToken(c)}) = 1
    /\ Cardinality({c \in Callers : LeaderRunning(c)}) <= 1

\* a second leader is broadcasting after the first has finished, while the
\* third call stands at its select and can neither lead nor join
C35_Witness ==
    \E l1 \in Callers, l2 \in Callers, c \in Callers :
        /\ pc[l1] = "done" /\ requests[l1] # <<>>
        /\ pc[l2] = "broadcast"
        /\ pc[c] = "select"
        /\ muCh = 0

(***************************************************************************)
(* C36  As claimed: whenever no call is a leader at work, muCh holds its   *)
(* token again, whatever ended the last leader's call: a broadcast that    *)
(* succeeded or failed, or a cancelled context while it collected.         *)
(***************************************************************************)
C36_UnlockedWhenNoLeaderRuns ==
    (\A c \in Callers : ~LeaderRunning(c)) => muCh = 1

\* a leader whose broadcast succeeded or failed has put the token back
C36_UnlockedAfterBroadcast ==
    \A l \in Callers :
        (pc[l] \in {"deliver", "done"} /\ requests[l] # <<>>)
            => (muCh = 1 \/ \E c \in Callers : c # l /\ HoldsToken(c))

\* the leader's context was cancelled while it collected: its call has
\* returned the context's error, no call is a leader, muCh is empty and a
\* call whose context is not cancelled stands at its select for good
C36_LockedForGood ==
    \E l \in Callers, c \in Callers :
        /\ pc[l] = "done" /\ retErr[l] = "ctx.Err"
        /\ collected[l] # <<>> /\ requests[l] = <<>>
        /\ \A x \in Callers : ~LeaderRunning(x)
        /\ muCh = 0
        /\ pc[c] = "select" /\ ~ctxDone[c]

\* the leader that took the request of `c` into its batch
AcceptedBy(c, l) == c # l /\ c \in Range(collected[l])

\* the outcome of the leader's transaction has been sent to the request of
\* `c`: it lies in the channel or the call of `c` has taken it
ResultSent(c) == FundedCh[c] # <<>> \/ (pc[c] = "done" /\ retErr[c] # "ctx.Err")

(***************************************************************************)
(* C37  As claimed: once the call of a leader has ended, however it ended, *)
(* every participant whose request the leader accepted has been sent the   *)
(* outcome on its FundedCh.                                                *)
(***************************************************************************)
C37_EveryAcceptedRequestAnswered ==
    \A l \in Callers, c \in Callers :
        (AcceptedBy(c, l) /\ pc[l] = "done")
            => (ResultSent(c) \/ (pc[c] = "done" /\ retErr[c] = "ctx.Err"))

\* what holds of a leader whose batch was broadcast: every request of the
\* batch is sent the value broadcastTx returned, each channel gets one value
\* and has room for it, and a participant that returns without a cancelled
\* context returns that value
C37_BroadcastOutcomeDelivered ==
    \A l \in Callers, c \in Callers :
        /\ (pc[l] = "deliver" /\ sent[l] < Len(requests[l]))
               => FundedCh[requests[l][sent[l] + 1]] = <<>>
        /\ Len(FundedCh[c]) <= 1
        /\ (AcceptedBy(c, l) /\ pc[l] = "done" /\ requests[l] # <<>>)
               => /\ ResultSent(c) \/ (pc[c] = "done" /\ retErr[c] = "ctx.Err")
                  /\ FundedCh[c] # <<>> => Head(FundedCh[c]) = retErr[l]
        /\ (AcceptedBy(c, l) /\ pc[c] = "done" /\ retErr[c] # "ctx.Err")
               => retErr[c] = retErr[l]

\* the leader's context was cancelled after it had accepted a request: the
\* leader's call is over, the participant's context is live, it waits and
\* its channel is empty
C37_ParticipantLeftWaiting ==
    \E l \in Callers, c \in Callers :
        /\ AcceptedBy(c, l)
        /\ pc[l] = "done" /\ retErr[l] = "ctx.Err" /\ requests[l] = <<>>
        /\ pc[c] = "wait" /\ ~ctxDone[c]
        /\ FundedCh[c] = <<>>

\* the batches of the leaders that `c` is part of
BatchesOf(c) == {l \in Callers : c \in Range(collected[l])}

\* positions of `c` in the batch of `l`
PositionsIn(c, l) == {i \in DOMAIN collected[l] : collected[l][i] = c}

\* where the request of `c` stands in a batch
PositionOf(c, reqs) == CHOOSE p \in DOMAIN reqs : reqs[p] = c

\* the call of `c` has handed its request over: it took the lead or a leader
\* received the request from queue
HandedOver(c) ==
    \/ pc[c] \in {"collect", "broadcast", "unlock", "deliver", "wait"}
    \/ pc[c] = "done" /\ (collected[c] # <<>> \/ \E l \in Callers : AcceptedBy(c, l))

MaxArgLen == 3

\* the characters of the arguments: two digits, the signs and a letter
Chars == {"0", "1", "-", "+", "a"}

Digits == {"0", "1"}

DigitValue == [ch \in Digits |-> IF ch = "0" THEN 0 ELSE 1]

\* all strings of at most n characters
StringsUpTo(n) == UNION {[1..k -> Chars] : k \in 0..n}

\* the [precision] arguments: "10", "a" and ""
PrecisionArgs == {<<"1", "0">>, <<"a">>, <<>>}

\* the number written by the digits `s` in base `base`
RECURSIVE NumberOf(_, _)
NumberOf(s, base) ==
    IF s = <<>> THEN 0
    ELSE NumberOf(SubSeq(s, 1, Len(s) - 1), base) * base + DigitValue[s[Len(s)]]

\* strconv.ParseUint(s, 10, 32): decimal digits only, at least one, no sign
ParseUint(s) ==
    IF s # <<>> /\ \A i \in DOMAIN s : s[i] \in Digits
    THEN [value |-> NumberOf(s, 10), err |-> "nil"]
    ELSE [value |-> 0, err |-> "ErrSyntax"]

\* sdk.NewIntFromString(s), which is big.Int.SetString(s, 0): an optional
\* sign, then at least one digit and nothing else; a leading 0 followed by
\* more digits makes the number octal
NewIntFromString(s) ==
    LET signed == s # <<>> /\ s[1] \in {"-", "+"}
        digits == IF signed THEN Tail(s) ELSE s
        base == IF Len(digits) > 1 /\ digits[1] = "0" THEN 8 ELSE 10
        abs == NumberOf(digits, base)
    IN  IF digits # <<>> /\ \A i \in DOMAIN digits : digits[i] \in Digits
        THEN [value |-> IF signed /\ s[1] = "-" THEN 0 - abs ELSE abs, ok |-> TRUE]
        ELSE [value |-> 0, ok |-> FALSE]

\* sdkerrors.Wrap(err, description): nil stays nil, an error is wrapped
Wrap(err, description) ==
    IF err = "nil" THEN "nil" ELSE <<description, err>>

\* no message has been built
NoMsg == [type |-> "none"]

\* the command is run with its arguments; `clientCtxErr` and `flagsErr` say
\* whether the client context and the flags of the command line are in order
Execute ==
    /\ cmd = NoCmd
    /\ \E precision \in PrecisionArgs, amount \in StringsUpTo(MaxArgLen),
          clientCtxErr \in {"nil", "ErrClientCtx"}, flagsErr \in {"nil", "ErrFlags"} :
           cmd' = [pc |-> "GetClientTxContext",
                   args2 |-> precision, args3 |-> amount,
                   clientCtxErr |-> clientCtxErr, flagsErr |-> flagsErr,
                   err |-> "nil", precision |-> 0, initialAmount |-> 0,
                   msg |-> NoMsg, ret |-> "none"]
    /\ UNCHANGED <<storeVars, faucetVars>>

\* clientCtx, err := client.GetClientTxContext(cmd)
RunE_GetClientTxContext ==
    /\ cmd.pc = "GetClientTxContext"
    /\ cmd' = IF cmd.clientCtxErr # "nil"
              THEN [cmd EXCEPT !.err = cmd.clientCtxErr, !.ret = cmd.clientCtxErr,
                               !.pc = "done"]
              ELSE [cmd EXCEPT !.err = "nil", !.pc = "precision"]
    /\ UNCHANGED <<storeVars, faucetVars>>

\* precision, err := strconv.ParseUint(args[2], 10, 32)
RunE_precision ==
    /\ cmd.pc = "precision"
    /\ LET r == ParseUint(cmd.args2)
       IN  cmd' = IF r.err # "nil"
                  THEN [cmd EXCEPT !.err = r.err,
                                   !.ret = Wrap(r.err, "invalid precision"),
                                   !.pc = "done"]
                  ELSE [cmd EXCEPT !.err = r.err, !.precision = r.value,
                                   !.pc = "initialAmount"]
    /\ UNCHANGED <<storeVars, faucetVars>>

\* the initial amount is zero when the argument is empty; otherwise it is
\* parsed, and when that fails the command returns Wrap of the variable err
RunE_initialAmount ==
    /\ cmd.pc = "initialAmount"
    /\ LET r == NewIntFromString(cmd.args3)
       IN  cmd' = IF cmd.args3 = <<>>
                  THEN [cmd EXCEPT !.initialAmount = 0, !.pc = "flags"]
                  ELSE IF ~r.ok
                       THEN [cmd EXCEPT !.initialAmount = r.value,
                                        !.ret = Wrap(cmd.err, "invalid initial_amount"),
                                        !.pc = "done"]
                       ELSE [cmd EXCEPT !.initialAmount = r.value, !.pc = "flags"]
    /\ UNCHANGED <<storeVars, faucetVars>>

\* the features and the burn rate are read from the flags
RunE_flags ==
    /\ cmd.pc = "flags"
    /\ cmd' = IF cmd.flagsErr # "nil"
              THEN [cmd EXCEPT !.err = cmd.flagsErr, !.ret = cmd.flagsErr,
                               !.pc = "done"]
              ELSE [cmd EXCEPT !.err = "nil", !.pc = "MsgIssue"]
    /\ UNCHANGED <<storeVars, faucetVars>>

\* the MsgIssue is built and handed to tx.GenerateOrBroadcastTxCLI
RunE_MsgIssue ==
    /\ cmd.pc = "MsgIssue"
    /\ \E result \in {"nil", "ErrBroadcast"} :
           cmd' = [cmd EXCEPT !.msg = [type |-> "Issue",
                                       Precision |-> cmd.precision,
                                       InitialAmount |-> cmd.initialAmount],
                              !.ret = result,
                              !.pc = "done"]
    /\ UNCHANGED <<storeVars, faucetVars>>

NextCLI ==
    \/ Execute
    \/ RunE_GetClientTxContext
    \/ RunE_precision
    \/ RunE_initialAmount
    \/ RunE_flags
    \/ RunE_MsgIssue

SpecCLI == Init /\ [][NextCLI]_vars

\* the command has returned
Returned == cmd.pc = "done"

\* the initial_amount argument is given and is not an integer
InvalidInitialAmount == cmd.args3 # <<>> /\ ~NewIntFromString(cmd.args3).ok

(***************************************************************************)
(* C39  When the issue command has returned and its initial_amount         *)
(* argument is non-empty and not a valid integer, it has returned an error *)
(* that is not nil and has built no MsgIssue; a MsgIssue that is built     *)
(* carries the parsed amount, and zero in place of an empty argument only. *)
(***************************************************************************)
C39_InvalidAmountIsAnError ==
    Returned =>
        /\ InvalidInitialAmount => (cmd.ret # "nil" /\ cmd.msg = NoMsg)
        /\ cmd.msg # NoMsg =>
               cmd.msg.InitialAmount
                   = IF cmd.args3 = <<>> THEN 0 ELSE NewIntFromString(cmd.args3).value

\* what the command does keep: no MsgIssue is built from an invalid amount,
\* the amount of a built MsgIssue is the parsed one, zero for an empty
\* argument only, and no other exit of the command loses its error
C39_InvalidAmountBuildsNoMsg ==
    Returned =>
        /\ InvalidInitialAmount => cmd.msg = NoMsg
        /\ cmd.msg # NoMsg =>
               /\ cmd.args3 = <<>> \/ NewIntFromString(cmd.args3).ok
               /\ cmd.msg.InitialAmount
                      = IF cmd.args3 = <<>> THEN 0 ELSE NewIntFromString(cmd.args3).value
        /\ (cmd.ret = "nil" /\ cmd.msg = NoMsg) => InvalidInitialAmount

\* the command was run with the amount "1a" and returned nil without a message
C39_InvalidAmountReturnsNil ==
    /\ Returned
    /\ cmd.args3 = <<"1", "a">>
    /\ cmd.args2 = <<"1", "0">>
    /\ cmd.ret = "nil"
    /\ cmd.msg = NoMsg

====
